---- MODULE Spec2Model ----
(***************************************************************************)
(* Model of the VM lifecycle controller of vmm/src/vm.rs, as built for     *)
(* x86_64 with the kvm, tdx and gdb features.                              *)
(*                                                                         *)
(* Every public operation of Vm (boot, shutdown, pause, resume, snapshot,  *)
(* restore, debug_pause, debug_resume) is one action.  The body of an      *)
(* operation is the list of the steps it performs, in source order; Run    *)
(* executes the list up to the first step that fails, the way the `?`      *)
(* operator leaves a Rust function.  The step that an external call fails  *)
(* at is an input of the action.                                           *)
(***************************************************************************)
EXTENDS Naturals, Sequences, FiniteSets, TLC

VARIABLES
    state,              \* Vm.state: RwLock<VmState>, the value stored
    poisoned,           \* Vm.state: the RwLock is poisoned
    signals,            \* Vm.signals is Some(handle)
    threads,            \* Vm.threads.len()
    load_kernel_handle, \* Vm.load_kernel_handle is Some(join handle)
    saved_clock,        \* Vm.saved_clock is Some(clock)
    on_tty,             \* Vm.on_tty
    stop_on_boot,       \* Vm.stop_on_boot
    tdx,                \* config.tdx.is_some()
    vcpus_paused,       \* CpuManager: what vcpus_paused() answers
    dm_paused,          \* DeviceManager: paused
    op,                 \* last operation called on the Vm
    res,                \* what it returned
    log,                \* the external calls it made, in order
    writes,             \* the <<from, to>> stores it made to Vm.state
    vt_self,            \* test_vm_state_transitions: the state under test
    vt_results,         \* test_vm_state_transitions: new_state -> result
    pc,                 \* pause/snapshot/restore scenario: the next call
    snapshot,           \* pause/snapshot/restore scenario: the Snapshot taken
    vcpu,               \* a vCPU thread in a callback of VmOpsHandler
    barrier,            \* the threads that have arrived at the Barrier
    xfer,               \* send_memory_regions / receive_memory_regions: the loop
    fdsend,             \* send_memory_fds: the loop and the traffic of the socket
    config,             \* VmConfig: the device lists and vsock
    hotplug,            \* the last add_* or remove_device call
    zones,              \* VmConfig: memory.zones
    resized,             \* the last resize_zone call
    resources,          \* VmConfig: cpus.boot_vcpus, memory and balloon
    resizing,            \* the last resize call
    numa,                \* create_numa_nodes: the configuration given and the result
    hob,                 \* hob_memory_resources: the sections and RAM given, the list returned
    locks,               \* the locks of the Vm: who holds which, and where each thread stands
    transport,           \* Transportable::send: the files of the destination and the last call
    dispatcher,          \* the signal_handler thread: where it stands, the signals pending and served
    loading,             \* load_kernel (x86_64): the kernel file, the guest memory and the result
    queries,             \* the poisoned mutexes of the managers, and the last read-only query and its answer
    mirror,              \* the managers and the configuration side by side, while an operation updates them
    plug,                \* one add_* or remove_device call on a configuration of devices
    domain              \* boot of a trusted domain: the TDVF sections, the position in boot, the calls made

\* The Vm, its collaborators and the record of its last operation.
vmVars == <<state, poisoned, signals, threads, load_kernel_handle, saved_clock,
            on_tty, stop_on_boot, tdx, vcpus_paused, dm_paused,
            op, res, log, writes>>

vtVars == <<vt_self, vt_results>>

scenarioVars == <<pc, snapshot>>

opsVars == <<vcpu, barrier>>

\* What the operations of Vm and the tests leave alone.
cfgVars == <<config, hotplug>>

zoneVars == <<zones, resized>>

resizeVars == <<resources, resizing>>

numaVars == <<numa>>

hobVars == <<hob>>

lockVars == <<locks>>

sendVars == <<transport>>

sigVars == <<dispatcher>>

loadVars == <<loading>>

queryVars == <<queries>>

mirrorVars == <<mirror>>

plugVars == <<plug>>

domainVars == <<domain>>

asideVars == <<opsVars, xfer, fdsend, cfgVars, zoneVars, resizeVars, numaVars, hobVars, lockVars, sendVars, sigVars, loadVars, queryVars, mirrorVars, plugVars, domainVars>>

vars == <<vmVars, vtVars, scenarioVars, asideVars>>

\* Bound on Vm.threads.len(): boot and restore are not called beyond it.
MaxThreads == 1

VmState == {"Created", "Running", "Shutdown", "Paused", "BreakPoint"}

----------------------------------------------------------------------------
(* Results *)

Ok == [ok |-> TRUE, err |-> "", at |-> "", from |-> "-", to |-> "-", wrap |-> <<>>]

InvalidStateTransition(from, to) ==
    [ok |-> FALSE, err |-> "InvalidStateTransition", at |-> "valid_transition",
     from |-> from, to |-> to, wrap |-> <<>>]

Failure(err, at) ==
    [ok |-> FALSE, err |-> err, at |-> at, from |-> "-", to |-> "-", wrap |-> <<>>]

\* valid_transition with the arm of Created taken from the arm of Running:
\* Created -> Shutdown passes and Created -> Running is refused.
valid_transition_swapped_arm(self, new_state) ==
    CASE self \in {"Created", "Running"} ->
            IF new_state \in {"Created", "Running"}
            THEN InvalidStateTransition(self, new_state)
            ELSE Ok
      [] self = "Shutdown" ->
            IF new_state = "Running"
            THEN Ok
            ELSE InvalidStateTransition(self, new_state)
      [] self = "Paused" ->
            IF new_state \in {"Running", "Shutdown"}
            THEN Ok
            ELSE InvalidStateTransition(self, new_state)
      [] self = "BreakPoint" ->
            IF new_state \in {"Created", "Running"}
            THEN Ok
            ELSE InvalidStateTransition(self, new_state)

\* VmState::valid_transition
valid_transition(self, new_state) ==
    CASE self = "Created" ->
            IF new_state \in {"Created", "Shutdown"}
            THEN InvalidStateTransition(self, new_state)
            ELSE Ok
      [] self = "Running" ->
            IF new_state \in {"Created", "Running"}
            THEN InvalidStateTransition(self, new_state)
            ELSE Ok
      [] self = "Shutdown" ->
            IF new_state \in {"Paused", "Created", "Shutdown", "BreakPoint"}
            THEN InvalidStateTransition(self, new_state)
            ELSE Ok
      [] self = "Paused" ->
            IF new_state \in {"Created", "Paused", "BreakPoint"}
            THEN InvalidStateTransition(self, new_state)
            ELSE Ok
      [] self = "BreakPoint" ->
            IF new_state \in {"Created", "Running"}
            THEN Ok
            ELSE InvalidStateTransition(self, new_state)

----------------------------------------------------------------------------
(* Steps of an operation *)

\* A step: k is its kind, s its name, a its argument, w the error wrappers
\* (outermost first) that the source puts around its failure.
Step(k, s, a, w) == [k |-> k, s |-> s, a |-> a, w |-> w]

\* A call that returns a Result: it can fail, and then the operation returns.
Call(s, w) == Step("call", s, "-", w)

\* A call or assignment that returns no error.
Quiet(s) == Step("quiet", s, "-", <<>>)

\* f(e) applied to the error of every step of steps: `.map_err(f)`.
MapErr(steps, f) == [i \in DOMAIN steps |-> [steps[i] EXCEPT !.w = <<f>> \o @]]

\* The calls of the log that are operations of a sub-manager.
SubManagerCalls ==
    {"cpu_manager.pause", "cpu_manager.resume", "cpu_manager.shutdown",
     "cpu_manager.create_boot_vcpus", "cpu_manager.start_boot_vcpus",
     "cpu_manager.restore", "cpu_manager.start_restored_vcpus",
     "cpu_manager.snapshot", "cpu_manager.initialize_tdx",
     "device_manager.pause", "device_manager.resume",
     "device_manager.activate_virtio_devices", "device_manager.restore",
     "device_manager.restore_devices", "device_manager.snapshot",
     "memory_manager.restore", "memory_manager.snapshot"}

\* The calls that pause(), resume() and shutdown() make through
\* `<manager>.lock().unwrap()` while they hold the write guard of Vm.state:
\* a panic of one of them poisons the state lock.
PanicPoints ==
    {"device_manager.activate_virtio_devices", "cpu_manager.pause",
     "device_manager.pause", "cpu_manager.resume", "device_manager.resume",
     "cpu_manager.shutdown"}

\* What the CPU manager and the device manager answer afterwards.
CollabEff(s, v) ==
    CASE s = "cpu_manager.pause" -> [v EXCEPT !.vcpus_paused = TRUE]
      [] s = "cpu_manager.resume" -> [v EXCEPT !.vcpus_paused = FALSE]
      [] s = "cpu_manager.shutdown" -> [v EXCEPT !.vcpus_paused = FALSE]
      [] s = "cpu_manager.start_boot_vcpus" -> [v EXCEPT !.vcpus_paused = FALSE]
      [] s = "cpu_manager.start_restored_vcpus" -> [v EXCEPT !.vcpus_paused = TRUE]
      [] s = "device_manager.pause" -> [v EXCEPT !.dm_paused = TRUE]
      [] s = "device_manager.resume" -> [v EXCEPT !.dm_paused = FALSE]
      [] OTHER -> v

\* The assignments to the fields of Vm that a
\* successful step makes.
Eff(s, v) ==
    CASE s = "signals = Some" -> [v EXCEPT !.signals = TRUE]
      [] s = "spawn signal_handler" -> [v EXCEPT !.threads = @ + 1]
      [] s = "load_kernel_handle.take" -> [v EXCEPT !.load_kernel_handle = FALSE]
      [] s = "get_clock" -> [v EXCEPT !.saved_clock = TRUE]
      [] s = "saved_clock = Some" -> [v EXCEPT !.saved_clock = TRUE]
      [] s = "saved_clock = None" -> [v EXCEPT !.saved_clock = FALSE]
      [] s = "signals.take.close" -> [v EXCEPT !.signals = FALSE]
      [] s = "threads.drain.join" -> [v EXCEPT !.threads = 0]
      [] OTHER -> CollabEff(s, v)

\* The assignments a failing step leaves behind: the Drain of shutdown()
\* empties Vm.threads also when it is dropped at the first join error.
EffFail(s, v) ==
    IF s = "threads.drain.join" THEN [v EXCEPT !.threads = 0] ELSE v

Logged(v, s) == [v EXCEPT !.log = Append(@, s)]

\* A function is left: its RwLock guard is dropped; a guard dropped by a
\* panic poisons the lock.
Leave(v, panicking) ==
    [v EXCEPT !.guard = FALSE, !.poisoned = @ \/ (panicking /\ v.guard)]

\* A step that is no fallible call: a lock acquisition, a check or an
\* assignment.  Its outcome is decided by the state it runs in.
Exec(st, v) ==
    CASE st.k = "quiet" ->
            [v |-> Eff(st.s, Logged(v, st.s)), res |-> Ok]
      [] st.k = "try_write" ->
            IF v.poisoned
            THEN [v |-> v, res |-> [Failure("PoisonedState", st.s) EXCEPT !.wrap = st.w]]
            ELSE [v |-> [v EXCEPT !.guard = TRUE], res |-> Ok]
      [] st.k = "get_state" ->
            IF v.poisoned
            THEN [v |-> v, res |-> [Failure("PoisonedState", st.s) EXCEPT !.wrap = st.w]]
            ELSE [v |-> v, res |-> Ok]
      [] st.k = "get_state.unwrap" ->
            IF v.poisoned
            THEN [v |-> v, res |-> Failure("Panic", st.s)]
            ELSE [v |-> v, res |-> Ok]
      [] st.k = "valid_transition" ->
            LET r == valid_transition(v.state, st.a) IN
            IF r.ok
            THEN [v |-> v, res |-> Ok]
            ELSE [v |-> v, res |-> [r EXCEPT !.wrap = st.w]]
      [] st.k = "store" ->
            [v |-> [Logged(v, "commit") EXCEPT !.state = st.a,
                                              !.writes = Append(@, <<v.state, st.a>>)],
             res |-> Ok]
      [] st.k = "return" ->
            [v |-> Leave(v, FALSE), res |-> Ok]
      [] st.k = "tdx.is_some" ->
            IF v.tdx
            THEN [v |-> v, res |-> [Failure("Snapshot", st.s) EXCEPT !.wrap = st.w]]
            ELSE [v |-> v, res |-> Ok]
      [] st.k = "state != Paused" ->
            IF v.state # "Paused"
            THEN [v |-> v, res |-> [Failure("Snapshot", st.s) EXCEPT !.wrap = st.w]]
            ELSE [v |-> v, res |-> Ok]
      [] st.k = "snapshots.get" ->
            IF st.a = "Some"
            THEN [v |-> v, res |-> Ok]
            ELSE [v |-> v, res |-> [Failure("Missing snapshot", st.s) EXCEPT !.wrap = st.w]]

\* A fallible call returns Err: the operation returns it, as `?` does.
CallErr(st, v) ==
    [v |-> Leave(EffFail(st.s, Logged(v, st.s)), FALSE),
     res |-> [Failure("Failed", st.s) EXCEPT !.wrap = st.w]]

\* A call panics: the operation unwinds.
CallPanic(st, v) ==
    [v |-> Leave(Logged(v, st.s), TRUE), res |-> Failure("Panic", st.s)]

\* Every way the steps from the i-th on can go from v: v and the result at
\* the end.  Each fallible call either succeeds or is the one that fails, and
\* the steps run in order up to the first that fails.
RECURSIVE Runs(_, _, _)
Runs(steps, i, v) ==
    IF i > Len(steps)
    THEN {[v |-> Leave(v, FALSE), res |-> Ok]}
    ELSE LET st == steps[i] IN
         IF st.k = "call"
         THEN {CallErr(st, v)}
                \cup (IF st.s \in PanicPoints THEN {CallPanic(st, v)} ELSE {})
                \cup Runs(steps, i + 1, Eff(st.s, Logged(v, st.s)))
         ELSE LET r == Exec(st, v) IN
              IF r.res.ok
              THEN Runs(steps, i + 1, r.v)
              ELSE {[v |-> Leave(r.v, r.res.err = "Panic"), res |-> r.res]}

----------------------------------------------------------------------------
(* The operations of Vm, as lists of steps *)

TryWrite(w) == Step("try_write", "state.try_write", "-", w)
GetState(w) == Step("get_state", "get_state", "-", w)
ValidTransition(new_state, w) == Step("valid_transition", "valid_transition", new_state, w)
Store(new_state) == Step("store", "*state = new_state", new_state, <<>>)
Return == Step("return", "return", "-", <<>>)

\* Vm::setup_signal_handler; signals_ok: Signals::new returned Ok.
setup_signal_handler(signals_ok) ==
    <<Quiet("Signals::new")>> \o
    (IF signals_ok
     THEN <<Quiet("signals = Some"),
            Call("exit_evt.try_clone", <<"EventFdClone">>),
            Call("get_seccomp_filter", <<"CreateSeccompFilter">>),
            Call("spawn signal_handler", <<"SignalHandlerSpawn">>)>>
     ELSE <<>>)

\* Vm::setup_tty
setup_tty(v) ==
    IF v.on_tty THEN <<Call("set_raw_mode", <<"SetTerminalRaw">>)>> ELSE <<>>

\* Vm::create_acpi_tables
create_acpi_tables(v) ==
    IF v.tdx THEN <<>> ELSE <<Quiet("create_acpi_tables")>>

\* entry_point that takes the handle of the kernel-load thread and never
\* joins it.
entry_point_unjoined(v) ==
    IF v.load_kernel_handle
    THEN <<Quiet("load_kernel_handle.take")>>
    ELSE <<>>

\* Vm::entry_point (x86_64)
entry_point(v) ==
    IF v.load_kernel_handle
    THEN <<Quiet("load_kernel_handle.take"), Call("kernel_load.join", <<>>)>>
    ELSE <<>>

\* pause() that commits Paused before it pauses the device manager.
pause_steps_commit_early ==
    <<TryWrite(<<"MigratableError::Pause">>),
      ValidTransition("Paused", <<"MigratableError::Pause">>),
      Call("get_clock", <<"MigratableError::Pause">>),
      Call("device_manager.activate_virtio_devices", <<"MigratableError::Pause">>),
      Call("cpu_manager.pause", <<>>),
      Store("Paused"),
      Call("device_manager.pause", <<>>),
      Return>>

\* pause() that pauses the device manager before the CPU manager.
pause_steps_devices_first ==
    <<TryWrite(<<"MigratableError::Pause">>),
      ValidTransition("Paused", <<"MigratableError::Pause">>),
      Call("get_clock", <<"MigratableError::Pause">>),
      Call("device_manager.activate_virtio_devices", <<"MigratableError::Pause">>),
      Call("device_manager.pause", <<>>),
      Call("cpu_manager.pause", <<>>),
      Store("Paused"),
      Return>>

\* pause() that reads the clock and activates the virtio devices before it
\* checks the transition.
pause_steps_check_late ==
    <<TryWrite(<<"MigratableError::Pause">>),
      Call("get_clock", <<"MigratableError::Pause">>),
      Call("device_manager.activate_virtio_devices", <<"MigratableError::Pause">>),
      ValidTransition("Paused", <<"MigratableError::Pause">>),
      Call("cpu_manager.pause", <<>>),
      Call("device_manager.pause", <<>>),
      Store("Paused"),
      Return>>

\* Pausable::pause
pause_steps ==
    <<TryWrite(<<"MigratableError::Pause">>),
      ValidTransition("Paused", <<"MigratableError::Pause">>),
      Call("get_clock", <<"MigratableError::Pause">>),
      Call("device_manager.activate_virtio_devices", <<"MigratableError::Pause">>),
      Call("cpu_manager.pause", <<>>),
      Call("device_manager.pause", <<>>),
      Store("Paused"),
      Return>>

\* resume() without the check of the transition to Running.
resume_steps_unchecked(v) ==
    <<TryWrite(<<"MigratableError::Resume">>),
      Call("cpu_manager.resume", <<>>)>> \o
    (IF v.saved_clock
     THEN <<Call("set_clock", <<"MigratableError::Resume">>)>>
     ELSE <<>>) \o
    <<Call("device_manager.resume", <<>>),
      Store("Running"),
      Return>>

\* Pausable::resume
resume_steps(v) ==
    <<TryWrite(<<"MigratableError::Resume">>),
      ValidTransition("Running", <<"MigratableError::Resume">>),
      Call("cpu_manager.resume", <<>>)>> \o
    (IF v.saved_clock
     THEN <<Call("set_clock", <<"MigratableError::Resume">>)>>
     ELSE <<>>) \o
    <<Call("device_manager.resume", <<>>),
      Store("Running"),
      Return>>

\* boot() that commits the new state before it starts the boot vCPUs.
boot_steps_commit_early(v, signals_ok) ==
    <<GetState(<<>>)>> \o
    IF v.state = "Paused"
    THEN MapErr(resume_steps(v), "Error::Resume")
    ELSE
      LET new_state == IF v.stop_on_boot THEN "BreakPoint" ELSE "Running" IN
      <<ValidTransition(new_state, <<>>)>> \o
      create_acpi_tables(v) \o
      setup_signal_handler(signals_ok) \o
      setup_tty(v) \o
      entry_point(v) \o
      (IF v.tdx THEN <<Call("tdx_init", <<"InitializeTdxVm">>)>> ELSE <<>>) \o
      <<Call("cpu_manager.create_boot_vcpus", <<"CpuManager">>)>> \o
      (IF v.tdx
       THEN <<Call("extract_tdvf_sections", <<>>),
              Call("populate_tdx_sections", <<>>)>>
       ELSE <<>>) \o
      (IF v.load_kernel_handle THEN <<Call("configure_system", <<>>)>> ELSE <<>>) \o
      (IF v.tdx
       THEN <<Call("cpu_manager.initialize_tdx", <<"CpuManager">>),
              Call("init_tdx_memory", <<>>),
              Call("tdx_finalize", <<"FinalizeTdx">>)>>
       ELSE <<>>) \o
      <<TryWrite(<<>>), Store(new_state)>> \o
      (IF new_state = "Running"
       THEN <<Call("cpu_manager.start_boot_vcpus", <<"CpuManager">>)>>
       ELSE <<>>) \o
      <<Return>>

\* boot() that never hands a paused VM to resume().
boot_steps_no_delegation(v, signals_ok) ==
    <<GetState(<<>>)>> \o
    IF FALSE
    THEN MapErr(resume_steps(v), "Error::Resume")
    ELSE
      LET new_state == IF v.stop_on_boot THEN "BreakPoint" ELSE "Running" IN
      <<ValidTransition(new_state, <<>>)>> \o
      create_acpi_tables(v) \o
      setup_signal_handler(signals_ok) \o
      setup_tty(v) \o
      entry_point(v) \o
      (IF v.tdx THEN <<Call("tdx_init", <<"InitializeTdxVm">>)>> ELSE <<>>) \o
      <<Call("cpu_manager.create_boot_vcpus", <<"CpuManager">>)>> \o
      (IF v.tdx
       THEN <<Call("extract_tdvf_sections", <<>>),
              Call("populate_tdx_sections", <<>>)>>
       ELSE <<>>) \o
      (IF v.load_kernel_handle THEN <<Call("configure_system", <<>>)>> ELSE <<>>) \o
      (IF v.tdx
       THEN <<Call("cpu_manager.initialize_tdx", <<"CpuManager">>),
              Call("init_tdx_memory", <<>>),
              Call("tdx_finalize", <<"FinalizeTdx">>)>>
       ELSE <<>>) \o
      (IF new_state = "Running"
       THEN <<Call("cpu_manager.start_boot_vcpus", <<"CpuManager">>)>>
       ELSE <<>>) \o
      <<TryWrite(<<>>), Store(new_state), Return>>

\* boot() that ignores stop_on_boot.
boot_steps_always_running(v, signals_ok) ==
    <<GetState(<<>>)>> \o
    IF v.state = "Paused"
    THEN MapErr(resume_steps(v), "Error::Resume")
    ELSE
      LET new_state == "Running" IN
      <<ValidTransition(new_state, <<>>)>> \o
      create_acpi_tables(v) \o
      setup_signal_handler(signals_ok) \o
      setup_tty(v) \o
      entry_point(v) \o
      (IF v.tdx THEN <<Call("tdx_init", <<"InitializeTdxVm">>)>> ELSE <<>>) \o
      <<Call("cpu_manager.create_boot_vcpus", <<"CpuManager">>)>> \o
      (IF v.tdx
       THEN <<Call("extract_tdvf_sections", <<>>),
              Call("populate_tdx_sections", <<>>)>>
       ELSE <<>>) \o
      (IF v.load_kernel_handle THEN <<Call("configure_system", <<>>)>> ELSE <<>>) \o
      (IF v.tdx
       THEN <<Call("cpu_manager.initialize_tdx", <<"CpuManager">>),
              Call("init_tdx_memory", <<>>),
              Call("tdx_finalize", <<"FinalizeTdx">>)>>
       ELSE <<>>) \o
      (IF new_state = "Running"
       THEN <<Call("cpu_manager.start_boot_vcpus", <<"CpuManager">>)>>
       ELSE <<>>) \o
      <<TryWrite(<<>>), Store(new_state), Return>>

\* Vm::boot
boot_steps(v, signals_ok) ==
    <<GetState(<<>>)>> \o
    IF v.state = "Paused"
    THEN MapErr(resume_steps(v), "Error::Resume")
    ELSE
      LET new_state == IF v.stop_on_boot THEN "BreakPoint" ELSE "Running" IN
      <<ValidTransition(new_state, <<>>)>> \o
      create_acpi_tables(v) \o
      setup_signal_handler(signals_ok) \o
      setup_tty(v) \o
      entry_point(v) \o
      (IF v.tdx THEN <<Call("tdx_init", <<"InitializeTdxVm">>)>> ELSE <<>>) \o
      <<Call("cpu_manager.create_boot_vcpus", <<"CpuManager">>)>> \o
      (IF v.tdx
       THEN <<Call("extract_tdvf_sections", <<>>),
              Call("populate_tdx_sections", <<>>)>>
       ELSE <<>>) \o
      (IF v.load_kernel_handle THEN <<Call("configure_system", <<>>)>> ELSE <<>>) \o
      (IF v.tdx
       THEN <<Call("cpu_manager.initialize_tdx", <<"CpuManager">>),
              Call("init_tdx_memory", <<>>),
              Call("tdx_finalize", <<"FinalizeTdx">>)>>
       ELSE <<>>) \o
      (IF new_state = "Running"
       THEN <<Call("cpu_manager.start_boot_vcpus", <<"CpuManager">>)>>
       ELSE <<>>) \o
      <<TryWrite(<<>>), Store(new_state), Return>>

\* shutdown() that leaves the handle of the signal dispatcher open.
shutdown_steps_unclosed(v) ==
    <<TryWrite(<<>>),
      ValidTransition("Shutdown", <<>>)>> \o
    (IF v.on_tty THEN <<Call("set_canon_mode", <<"SetTerminalCanon">>)>> ELSE <<>>) \o
    <<Call("device_manager.resume", <<"Error::Resume">>),
      Call("cpu_manager.shutdown", <<"CpuManager">>)>> \o
    (IF v.threads > 0
     THEN <<Call("threads.drain.join", <<"ThreadCleanup">>)>>
     ELSE <<>>) \o
    <<Store("Shutdown"), Return>>

\* Vm::shutdown
shutdown_steps(v) ==
    <<TryWrite(<<>>),
      ValidTransition("Shutdown", <<>>)>> \o
    (IF v.on_tty THEN <<Call("set_canon_mode", <<"SetTerminalCanon">>)>> ELSE <<>>) \o
    (IF v.signals THEN <<Quiet("signals.take.close")>> ELSE <<>>) \o
    <<Call("device_manager.resume", <<"Error::Resume">>),
      Call("cpu_manager.shutdown", <<"CpuManager">>)>> \o
    (IF v.threads > 0
     THEN <<Call("threads.drain.join", <<"ThreadCleanup">>)>>
     ELSE <<>>) \o
    <<Store("Shutdown"), Return>>

\* snapshot() without the check that the VM is paused.
snapshot_steps_any_state ==
    <<Step("tdx.is_some", "config.tdx.is_some", "-", <<"MigratableError::Snapshot">>),
      Step("get_state.unwrap", "get_state.unwrap", "-", <<>>),
      Call("generate_common_cpuid", <<"MigratableError::MigrateReceive">>),
      Call("vm.state", <<"MigratableError::Snapshot">>),
      Call("serde_json::to_vec", <<"MigratableError::Snapshot">>),
      Call("cpu_manager.snapshot", <<>>),
      Call("memory_manager.snapshot", <<>>),
      Call("device_manager.snapshot", <<>>),
      Return>>

\* Snapshottable::snapshot
snapshot_steps ==
    <<Step("tdx.is_some", "config.tdx.is_some", "-", <<"MigratableError::Snapshot">>),
      Step("get_state.unwrap", "get_state.unwrap", "-", <<>>),
      Step("state != Paused", "current_state != Paused", "-", <<"MigratableError::Snapshot">>),
      Call("generate_common_cpuid", <<"MigratableError::MigrateReceive">>),
      Call("vm.state", <<"MigratableError::Snapshot">>),
      Call("serde_json::to_vec", <<"MigratableError::Snapshot">>),
      Call("cpu_manager.snapshot", <<>>),
      Call("memory_manager.snapshot", <<>>),
      Call("device_manager.snapshot", <<>>),
      Return>>

\* snapshot.snapshots.get(id), for a snapshot with the children snapshots
SnapshotsGet(snapshots, id) ==
    Step("snapshots.get", id, IF id \in snapshots THEN "Some" ELSE "None",
         <<"MigratableError::Restore">>)

\* Vm::load_clock_from_snapshot; clock: the clock of the VmSnapshot is Some
load_clock_from_snapshot(clock) ==
    <<Call("get_vm_snapshot", <<"Error::Restore">>),
      Quiet(IF clock THEN "saved_clock = Some" ELSE "saved_clock = None")>>

\* restore() that checks the transition to Running instead of Paused.
restore_steps_to_running(v, snapshots, clock, signals_ok) ==
    <<GetState(<<"MigratableError::Restore">>),
      ValidTransition("Running", <<"MigratableError::Restore">>)>> \o
    MapErr(load_clock_from_snapshot(clock), "MigratableError::Restore") \o
    <<SnapshotsGet(snapshots, "memory-manager"),
      Call("memory_manager.restore", <<>>),
      SnapshotsGet(snapshots, "device-manager"),
      Call("device_manager.restore", <<>>),
      SnapshotsGet(snapshots, "cpu-manager"),
      Call("cpu_manager.restore", <<>>),
      SnapshotsGet(snapshots, "device-manager"),
      Call("device_manager.restore_devices", <<>>),
      Call("cpu_manager.start_restored_vcpus", <<"MigratableError::Restore">>)>> \o
    MapErr(setup_signal_handler(signals_ok), "MigratableError::Restore") \o
    MapErr(setup_tty(v), "MigratableError::Restore") \o
    <<TryWrite(<<"MigratableError::Restore">>), Store("Paused"), Return>>

\* restore() that restores the CPU manager before the device manager.
restore_steps_cpu_first(v, snapshots, clock, signals_ok) ==
    <<GetState(<<"MigratableError::Restore">>),
      ValidTransition("Paused", <<"MigratableError::Restore">>)>> \o
    MapErr(load_clock_from_snapshot(clock), "MigratableError::Restore") \o
    <<SnapshotsGet(snapshots, "memory-manager"),
      Call("memory_manager.restore", <<>>),
      SnapshotsGet(snapshots, "cpu-manager"),
      Call("cpu_manager.restore", <<>>),
      SnapshotsGet(snapshots, "device-manager"),
      Call("device_manager.restore", <<>>),
      SnapshotsGet(snapshots, "device-manager"),
      Call("device_manager.restore_devices", <<>>),
      Call("cpu_manager.start_restored_vcpus", <<"MigratableError::Restore">>)>> \o
    MapErr(setup_signal_handler(signals_ok), "MigratableError::Restore") \o
    MapErr(setup_tty(v), "MigratableError::Restore") \o
    <<TryWrite(<<"MigratableError::Restore">>), Store("Paused"), Return>>

\* Snapshottable::restore of a snapshot with the children snapshots
restore_steps(v, snapshots, clock, signals_ok) ==
    <<GetState(<<"MigratableError::Restore">>),
      ValidTransition("Paused", <<"MigratableError::Restore">>)>> \o
    MapErr(load_clock_from_snapshot(clock), "MigratableError::Restore") \o
    <<SnapshotsGet(snapshots, "memory-manager"),
      Call("memory_manager.restore", <<>>),
      SnapshotsGet(snapshots, "device-manager"),
      Call("device_manager.restore", <<>>),
      SnapshotsGet(snapshots, "cpu-manager"),
      Call("cpu_manager.restore", <<>>),
      SnapshotsGet(snapshots, "device-manager"),
      Call("device_manager.restore_devices", <<>>),
      Call("cpu_manager.start_restored_vcpus", <<"MigratableError::Restore">>)>> \o
    MapErr(setup_signal_handler(signals_ok), "MigratableError::Restore") \o
    MapErr(setup_tty(v), "MigratableError::Restore") \o
    <<TryWrite(<<"MigratableError::Restore">>), Store("Paused"), Return>>

\* Debuggable::debug_pause
debug_pause_steps(v) ==
    (IF ~v.vcpus_paused
     THEN MapErr(pause_steps, "DebuggableError::Pause")
     ELSE <<>>) \o
    <<TryWrite(<<"DebuggableError">>), Store("BreakPoint"), Return>>

\* Debuggable::debug_resume
debug_resume_steps(v) ==
    (IF ~v.vcpus_paused
     THEN <<Call("cpu_manager.start_boot_vcpus",
                 <<"DebuggableError::Resume", "MigratableError::Resume">>)>>
     ELSE MapErr(resume_steps(v), "DebuggableError::Resume")) \o
    <<TryWrite(<<"DebuggableError">>), Store("Running"), Return>>

----------------------------------------------------------------------------
(* The state machine *)

SnapshotIds == {"memory-manager", "device-manager", "cpu-manager"}

\* The children of the snapshots given to restore(): all of them, or all of
\* them but one.
Snapshots == {SnapshotIds} \cup {SnapshotIds \ {id} : id \in SnapshotIds}

\* The Vm and its collaborators as one record.
Self ==
    [state |-> state, poisoned |-> poisoned, signals |-> signals,
     threads |-> threads, load_kernel_handle |-> load_kernel_handle,
     saved_clock |-> saved_clock, on_tty |-> on_tty,
     stop_on_boot |-> stop_on_boot, tdx |-> tdx,
     vcpus_paused |-> vcpus_paused, dm_paused |-> dm_paused,
     guard |-> FALSE, log |-> <<>>, writes |-> <<>>]

\* The operation name has run on the Vm as r says.
Assigned(name, r) ==
    /\ state' = r.v.state
    /\ poisoned' = r.v.poisoned
    /\ signals' = r.v.signals
    /\ threads' = r.v.threads
    /\ load_kernel_handle' = r.v.load_kernel_handle
    /\ saved_clock' = r.v.saved_clock
    /\ vcpus_paused' = r.v.vcpus_paused
    /\ dm_paused' = r.v.dm_paused
    /\ op' = name
    /\ res' = r.res
    /\ log' = r.v.log
    /\ writes' = r.v.writes
    /\ UNCHANGED <<on_tty, stop_on_boot, tdx>>

\* The operation name has run as r says, called on its own.
Returned(name, r) ==
    /\ Assigned(name, r)
    /\ UNCHANGED <<vtVars, scenarioVars, asideVars>>

\* No Snapshot.
NoSnapshot == [id |-> "-", snapshots |-> {}, snapshot_data |-> <<>>, taken |-> FALSE]

\* No vCPU thread is in a callback.
InGuest ==
    [pc |-> "guest", call |-> "-", addr |-> 0, len |-> 0, bus_res |-> "-",
     accessed |-> <<>>, warned |-> FALSE, ret |-> "-"]

\* No call of the transfer primitive yet.
NoCall == [i |-> 0, offset |-> 0, at |-> 0, count |-> 0, n |-> 0]

\* No transfer of memory regions is running.  turn is the parity of the
\* number of calls of the primitive, which tells a call that returned Ok(0)
\* from no call.
NoTransfer ==
    [pc |-> "idle", dir |-> "-", ranges |-> <<>>, i |-> 0, offset |-> 0,
     last |-> NoCall, moved |-> <<>>, ret |-> "-", turn |-> 0]

\* send_memory_fds is not running.
NoFdSend == [pc |-> "idle", slots |-> {}, pending |-> {}, wire |-> <<>>, ret |-> "-"]

\* Option<Vec<T>> and Option<T>
None == [some |-> FALSE, items |-> <<>>]
Some(items) == [some |-> TRUE, items |-> items]

\* The fields of VmConfig that hold a list of hot-pluggable devices.
DeviceLists == {"devices", "user_devices", "disks", "fs", "net", "pmem", "vdpa"}

\* A VmConfig without a device: every list, and vsock, is None.
NoDevices == [c \in DeviceLists \cup {"vsock"} |-> None]

\* No hotplug call yet.
NoHotplug == [op |-> "-", id |-> "-", ok |-> FALSE, after_add |-> FALSE, before |-> NoDevices]

\* No resize_zone call yet.
NoResize == [id |-> "-", desired_memory |-> 0, memory_manager |-> "-", ret |-> "-", before |-> None]

\* A VmConfig of one vCPU and one unit of memory, hotplugged by ACPI.
BootResources ==
    [boot_vcpus |-> 1, hotplug_method |-> "Acpi", size |-> 1,
     hotplugged_size |-> None, balloon |-> None]

\* No resize call yet.
NoResizing ==
    [desired_vcpus |-> None, desired_memory |-> None, desired_balloon |-> None,
     log |-> <<>>, ret |-> "-", before |-> BootResources]

\* create_numa_nodes not called yet, on a configuration without NUMA.
NoNuma == [configs |-> None, ret |-> "-", numa_nodes |-> <<>>]

\* hob_memory_resources not called, nothing to call it with.
NoHob == [sections |-> <<>>, guest_ranges |-> <<>>, ret |-> "-", list |-> <<>>]

\* No operation runs, no lock is held, the kernel loader was not spawned.
NoLocks == [arch |-> "x86_64", op |-> "none", at |-> 0, held |-> <<>>,
            loader_at |-> 0, loader_held |-> <<>>]

\* An empty destination, send not called; url_ok: url_to_path accepts the
\* destination; has_memory_manager: the snapshot has the child of the memory
\* manager.
NoSend == [files |-> [f \in {"config", "state"} |-> "absent"],
           before |-> [f \in {"config", "state"} |-> "absent"],
           url_ok |-> TRUE, has_memory_manager |-> TRUE,
           log |-> <<>>, ret |-> "-"]

\* The signal_handler thread was not spawned; the terminal is in raw mode
\* when the Vm is on it.
NoDispatcher == [pc |-> "unspawned", pending |-> <<>>, served |-> <<>>,
                 delivered |-> 0, exit_evt |-> 0, canon |-> FALSE, closed |-> FALSE]

\* load_kernel not called: a kernel file of no bytes, no RAM region added,
\* nothing copied.  Sizes and addresses are in KiB.
NoLoading == [size |-> 0, elf |-> "-", ret |-> "-", regions |-> {},
              copied |-> {}, log |-> <<>>]

\* No manager mutex is poisoned, nothing was asked.
NoQueries == [mutexes |-> {}, asked |-> "-", answer |-> "-"]

\* No operation runs; the device manager has the devices of the
\* configuration, the CPU manager its vCPUs, the memory manager its zone.
NoMirror == [op |-> "none", arg |-> 0, at |-> 0, held |-> <<>>,
             dm_devices |-> {}, config_devices |-> {},
             cpu_vcpus |-> 1, config_vcpus |-> 1,
             mm_zone |-> 0, config_zone |-> 0,
             observed |-> "-"]

\* Neither add_* nor remove_device called on a configuration without a
\* device.
NoPlug == [op |-> "-", list |-> "-", id |-> "-", prior |-> NoDevices,
           config |-> NoDevices, ret |-> "-", log |-> <<>>]

\* boot of a trusted domain not called, no TDVF section.
NoDomain == [sections |-> <<>>, at |-> 0, next |-> 1, log |-> <<>>, ret |-> "-"]

\* Nothing of what lies aside of the Vm has happened.
InitAside ==
    /\ vcpu = InGuest
    /\ barrier = {}
    /\ xfer = NoTransfer
    /\ fdsend = NoFdSend
    /\ config = NoDevices
    /\ hotplug = NoHotplug
    /\ resized = NoResize

\* Vm::new_from_memory_manager: the Vm after construction.
InitVm ==
    /\ state = "Created"
    /\ poisoned = FALSE
    /\ signals = FALSE
    /\ threads = 0
    /\ tdx \in BOOLEAN
    /\ load_kernel_handle = ~tdx
    /\ saved_clock = FALSE
    /\ on_tty \in BOOLEAN
    /\ stop_on_boot \in BOOLEAN
    /\ vcpus_paused = FALSE
    /\ dm_paused = FALSE
    /\ op = "new"
    /\ res = Ok
    /\ log = <<>>
    /\ writes = <<>>

Init ==
    /\ InitVm
    /\ vt_self = "Created"
    /\ vt_results = <<>>
    /\ pc = "none"
    /\ snapshot = NoSnapshot
    /\ InitAside
    /\ domain = NoDomain
    /\ plug = NoPlug
    /\ mirror = NoMirror
    /\ queries = NoQueries
    /\ loading = NoLoading
    /\ dispatcher = NoDispatcher
    /\ transport = NoSend
    /\ locks = NoLocks
    /\ hob = NoHob
    /\ numa = NoNuma
    /\ resources = BootResources
    /\ resizing = NoResizing
    /\ zones = None

Boot ==
    /\ threads < MaxThreads
    /\ \E r \in UNION {Runs(boot_steps(Self, signals_ok), 1, Self) :
                          signals_ok \in BOOLEAN} :
         Returned("boot", r)

Shutdown ==
    \E r \in Runs(shutdown_steps(Self), 1, Self) : Returned("shutdown", r)

Pause ==
    \E r \in Runs(pause_steps, 1, Self) : Returned("pause", r)

Resume ==
    \E r \in Runs(resume_steps(Self), 1, Self) : Returned("resume", r)

Snapshot ==
    \E r \in Runs(snapshot_steps, 1, Self) : Returned("snapshot", r)

Restore ==
    /\ threads < MaxThreads
    /\ \E r \in UNION {Runs(restore_steps(Self, a[1], a[2], a[3]), 1, Self) :
                          a \in Snapshots \X BOOLEAN \X BOOLEAN} :
         Returned("restore", r)

DebugPause ==
    \E r \in Runs(debug_pause_steps(Self), 1, Self) : Returned("debug_pause", r)

DebugResume ==
    \E r \in Runs(debug_resume_steps(Self), 1, Self) : Returned("debug_resume", r)

Next ==
    \/ Boot
    \/ Shutdown
    \/ Pause
    \/ Resume
    \/ Snapshot
    \/ Restore
    \/ DebugPause
    \/ DebugResume

Spec == Init /\ [][Next]_vars

----------------------------------------------------------------------------
(* tests::test_vm_state_transitions: valid_transition on its own *)

InitVT ==
    /\ InitVm
    /\ vt_self \in VmState
    /\ vt_results = <<>>
    /\ pc = "none"
    /\ snapshot = NoSnapshot
    /\ InitAside
    /\ domain = NoDomain
    /\ plug = NoPlug
    /\ mirror = NoMirror
    /\ queries = NoQueries
    /\ loading = NoLoading
    /\ dispatcher = NoDispatcher
    /\ transport = NoSend
    /\ locks = NoLocks
    /\ hob = NoHob
    /\ numa = NoNuma
    /\ resources = BootResources
    /\ resizing = NoResizing
    /\ zones = None

TestTransition ==
    /\ \E new_state \in VmState \ DOMAIN vt_results :
         vt_results' = (new_state :> valid_transition(vt_self, new_state)) @@ vt_results
    /\ UNCHANGED <<vmVars, vt_self, scenarioVars, asideVars>>

NextVT == TestTransition

SpecVT == InitVT /\ [][NextVT]_vars

----------------------------------------------------------------------------
(* The pause/snapshot/restore scenario: boot, pause and snapshot of a VM,   *)
(* then a new VM constructed from the Snapshot, restored and resumed        *)

VM_SNAPSHOT_ID == "vm"

\* Snapshot::new(id), Snapshot::add_snapshot of the snapshot of the
\* Snapshottable id, Snapshot::add_data_section
Snapshot_new(id) == [id |-> id, snapshots |-> {}, snapshot_data |-> <<>>, taken |-> TRUE]

add_snapshot(snap, id) == [snap EXCEPT !.snapshots = @ \cup {id}]

add_data_section(snap, section) == [snap EXCEPT !.snapshot_data = Append(@, section)]

\* The VmSnapshot of the Vm v; common_cpuid and state are what the
\* hypervisor gave.
VmSnapshotOf(v) == [clock |-> v.saved_clock, state |-> TRUE, common_cpuid |-> "cpuid"]

\* serde_json::to_vec(&VmSnapshot { .. }) and serde_json::from_slice
to_vec(vm_snapshot) ==
    <<"clock", IF vm_snapshot.clock THEN "{..}" ELSE "null",
      "state", IF vm_snapshot.state THEN "{..}" ELSE "null",
      "common_cpuid", vm_snapshot.common_cpuid>>

from_slice(bytes) ==
    [clock |-> bytes[2] # "null", state |-> bytes[4] # "null", common_cpuid |-> bytes[6]]

\* get_vm_snapshot(snapshot): the VmSnapshot read from the data section
\* "vm-section".
get_vm_snapshot(snap) ==
    LET i == CHOOSE i \in DOMAIN snap.snapshot_data :
                 snap.snapshot_data[i].id = VM_SNAPSHOT_ID \o "-section"
    IN from_slice(snap.snapshot_data[i].snapshot)

\* Snapshottable::snapshot that leaves the snapshot of the device manager out.
SnapshotOf_without_devices(v) ==
    add_data_section(
        add_snapshot(add_snapshot(Snapshot_new(VM_SNAPSHOT_ID), "cpu-manager"),
                     "memory-manager"),
        [id |-> VM_SNAPSHOT_ID \o "-section", snapshot |-> to_vec(VmSnapshotOf(v))])

\* Snapshottable::snapshot that leaves the data section out.
SnapshotOf_without_section(v) ==
    add_snapshot(add_snapshot(add_snapshot(Snapshot_new(VM_SNAPSHOT_ID), "cpu-manager"),
                              "memory-manager"),
                 "device-manager")

\* The Snapshot that a successful Snapshottable::snapshot returns: the
\* snapshots of the three managers and the data section with the VmSnapshot.
SnapshotOf(v) ==
    add_data_section(
        add_snapshot(add_snapshot(add_snapshot(Snapshot_new(VM_SNAPSHOT_ID), "cpu-manager"),
                                  "memory-manager"),
                     "device-manager"),
        [id |-> VM_SNAPSHOT_ID \o "-section", snapshot |-> to_vec(VmSnapshotOf(v))])

\* Vm::new_from_snapshot
new_from_snapshot_steps(snap) ==
    <<Call("get_vm_snapshot", <<"Error::Restore">>),
      Call("vm.set_state", <<"Error::Restore", "MigratableError::Restore">>)>> \o
    MapErr(<<SnapshotsGet(snap.snapshots, "memory-manager")>>, "Error::Restore") \o
    <<Call("MemoryManager::new_from_snapshot", <<"MemoryManager">>),
      Call("Vm::new_from_memory_manager", <<>>)>>

\* The Vm that Vm::new_from_memory_manager returns when restoring is true,
\* in place of v.
Constructed(v) ==
    [v EXCEPT !.state = "Created", !.poisoned = FALSE, !.signals = FALSE,
              !.threads = 0, !.load_kernel_handle = FALSE,
              !.saved_clock = FALSE, !.vcpus_paused = FALSE,
              !.dm_paused = FALSE]

InitScenario ==
    /\ InitVm
    /\ vt_self = "Created"
    /\ vt_results = <<>>
    /\ pc = "boot"
    /\ snapshot = NoSnapshot
    /\ InitAside
    /\ domain = NoDomain
    /\ plug = NoPlug
    /\ mirror = NoMirror
    /\ queries = NoQueries
    /\ loading = NoLoading
    /\ dispatcher = NoDispatcher
    /\ transport = NoSend
    /\ locks = NoLocks
    /\ hob = NoHob
    /\ numa = NoNuma
    /\ resources = BootResources
    /\ resizing = NoResizing
    /\ zones = None

\* The scenario goes on after a call that succeeded and ends at one that
\* failed.
Advance(r, next) == pc' = IF r.res.ok THEN next ELSE "failed"

ScenarioBoot ==
    /\ pc = "boot"
    /\ \E r \in UNION {Runs(boot_steps(Self, signals_ok), 1, Self) :
                          signals_ok \in BOOLEAN} :
         /\ Assigned("boot", r)
         /\ Advance(r, "pause")
    /\ UNCHANGED <<vtVars, snapshot, asideVars>>

ScenarioPause ==
    /\ pc = "pause"
    /\ \E r \in Runs(pause_steps, 1, Self) :
         /\ Assigned("pause", r)
         /\ Advance(r, "snapshot")
    /\ UNCHANGED <<vtVars, snapshot, asideVars>>

ScenarioSnapshot ==
    /\ pc = "snapshot"
    /\ \E r \in Runs(snapshot_steps, 1, Self) :
         /\ Assigned("snapshot", r)
         /\ Advance(r, "new_from_snapshot")
         /\ snapshot' = IF r.res.ok THEN SnapshotOf(r.v) ELSE snapshot
    /\ UNCHANGED <<vtVars, asideVars>>

ScenarioNewFromSnapshot ==
    /\ pc = "new_from_snapshot"
    /\ \E r \in Runs(new_from_snapshot_steps(snapshot), 1, Self) :
         /\ Assigned("new_from_snapshot",
                     IF r.res.ok THEN [r EXCEPT !.v = Constructed(@)] ELSE r)
         /\ Advance(r, "restore")
    /\ UNCHANGED <<vtVars, snapshot, asideVars>>

ScenarioRestore ==
    /\ pc = "restore"
    /\ \E r \in UNION {Runs(restore_steps(Self, snapshot.snapshots,
                                          get_vm_snapshot(snapshot).clock,
                                          signals_ok), 1, Self) :
                          signals_ok \in BOOLEAN} :
         /\ Assigned("restore", r)
         /\ Advance(r, "resume")
    /\ UNCHANGED <<vtVars, snapshot, asideVars>>

ScenarioResume ==
    /\ pc = "resume"
    /\ \E r \in Runs(resume_steps(Self), 1, Self) :
         /\ Assigned("resume", r)
         /\ Advance(r, "done")
    /\ UNCHANGED <<vtVars, snapshot, asideVars>>

NextScenario ==
    \/ ScenarioBoot
    \/ ScenarioPause
    \/ ScenarioSnapshot
    \/ ScenarioNewFromSnapshot
    \/ ScenarioRestore
    \/ ScenarioResume

SpecScenario == InitScenario /\ [][NextScenario]_vars

----------------------------------------------------------------------------
(* VmOpsHandler: the callbacks a vCPU thread runs on an MMIO or PIO exit *)

\* pci::PCI_CONFIG_IO_PORT and pci::PCI_CONFIG_IO_PORT_SIZE
PCI_CONFIG_IO_PORT == 3320
PCI_CONFIG_IO_PORT_SIZE == 8

\* Ports below, in and above the PCI configuration range.
Ports ==
    {0, PCI_CONFIG_IO_PORT - 1, PCI_CONFIG_IO_PORT + PCI_CONFIG_IO_PORT_SIZE}
        \cup {PCI_CONFIG_IO_PORT + i : i \in 0..(PCI_CONFIG_IO_PORT_SIZE - 1)}

Gpas == {0, 4096, 8192}

DataLens == {1, 2, 4}

\* What Bus::read and Bus::write answer.
ReadAnswers == {"Ok(())", "Err(MissingAddressRange)", "Err(other)"}
WriteAnswers == {"Ok(None)", "Ok(Some(barrier))", "Err(MissingAddressRange)", "Err(other)"}

\* The callback is over: it returns Ok(()).
ReturnedOk(call, addr, len, bus_res, accessed) ==
    [pc |-> "returned", call |-> call, addr |-> addr, len |-> len,
     bus_res |-> bus_res, accessed |-> accessed,
     warned |-> (bus_res = "Err(MissingAddressRange)"), ret |-> "Ok(())"]

\* The callback is in barrier.wait().
AtBarrier(call, addr, len, accessed) ==
    [pc |-> "barrier.wait", call |-> call, addr |-> addr, len |-> len,
     bus_res |-> "Ok(Some(barrier))", accessed |-> accessed,
     warned |-> FALSE, ret |-> "-"]

InConfigRange(port) ==
    /\ port >= PCI_CONFIG_IO_PORT
    /\ port < PCI_CONFIG_IO_PORT + PCI_CONFIG_IO_PORT_SIZE

\* VmOpsHandler::mmio_read, with the answer of mmio_bus.read
mmio_read(gpa, len, bus_res) ==
    ReturnedOk("mmio_read", gpa, len, bus_res, <<<<"mmio_bus", gpa>>>>)

\* mmio_write that does not wait on the barrier of the device.
mmio_write_no_wait(gpa, len, bus_res) ==
    ReturnedOk("mmio_write", gpa, len, bus_res, <<<<"mmio_bus", gpa>>>>)

\* VmOpsHandler::mmio_write, with the answer of mmio_bus.write, up to
\* barrier.wait()
mmio_write(gpa, len, bus_res) ==
    IF bus_res = "Ok(Some(barrier))"
    THEN AtBarrier("mmio_write", gpa, len, <<<<"mmio_bus", gpa>>>>)
    ELSE ReturnedOk("mmio_write", gpa, len, bus_res, <<<<"mmio_bus", gpa>>>>)

\* pio_read that sends every port to the PIO bus.
pio_read_all_to_bus(port, len, bus_res) ==
    ReturnedOk("pio_read", port, len, bus_res, <<<<"io_bus", port>>>>)

\* VmOpsHandler::pio_read, with the answer of io_bus.read
pio_read(port, len, bus_res) ==
    IF InConfigRange(port)
    THEN ReturnedOk("pio_read", port, len, "-",
                    <<<<"pci_config_io", PCI_CONFIG_IO_PORT, port - PCI_CONFIG_IO_PORT>>>>)
    ELSE ReturnedOk("pio_read", port, len, bus_res, <<<<"io_bus", port>>>>)

\* VmOpsHandler::pio_write, with the answer of io_bus.write, up to
\* barrier.wait()
pio_write(port, len, bus_res) ==
    IF InConfigRange(port)
    THEN ReturnedOk("pio_write", port, len, "-",
                    <<<<"pci_config_io", PCI_CONFIG_IO_PORT, port - PCI_CONFIG_IO_PORT>>>>)
    ELSE IF bus_res = "Ok(Some(barrier))"
         THEN AtBarrier("pio_write", port, len, <<<<"io_bus", port>>>>)
         ELSE ReturnedOk("pio_write", port, len, bus_res, <<<<"io_bus", port>>>>)

\* A new exit of the vCPU can be handled.
CanExit == vcpu.pc \in {"guest", "returned"}

\* The callback has run as v says; a Barrier that a write returns is new.
Handled(v) ==
    /\ vcpu' = v
    /\ barrier' = {}
    /\ UNCHANGED <<vmVars, vtVars, scenarioVars, xfer, fdsend, cfgVars, zoneVars, resizeVars, numaVars, hobVars, lockVars, sendVars, sigVars, loadVars, queryVars, mirrorVars, plugVars, domainVars>>

MmioRead ==
    /\ CanExit
    /\ \E gpa \in Gpas, len \in DataLens, b \in ReadAnswers :
         Handled(mmio_read(gpa, len, b))

MmioWrite ==
    /\ CanExit
    /\ \E gpa \in Gpas, len \in DataLens, b \in WriteAnswers :
         Handled(mmio_write(gpa, len, b))

PioRead ==
    /\ CanExit
    /\ \E port \in Ports, len \in DataLens, b \in ReadAnswers :
         Handled(pio_read(port, len, b))

PioWrite ==
    /\ CanExit
    /\ \E port \in Ports, len \in DataLens, b \in WriteAnswers :
         Handled(pio_write(port, len, b))

\* The other participant of the Barrier, a thread of the device, arrives.
DeviceArrives ==
    /\ vcpu.pc = "barrier.wait"
    /\ "device" \notin barrier
    /\ barrier' = barrier \cup {"device"}
    /\ UNCHANGED <<vmVars, vtVars, scenarioVars, vcpu, xfer, fdsend, cfgVars, zoneVars, resizeVars, numaVars, hobVars, lockVars, sendVars, sigVars, loadVars, queryVars, mirrorVars, plugVars, domainVars>>

\* barrier.wait() of mmio_write and pio_write returns: both participants
\* have arrived; the callback returns Ok(()).
BarrierReleased ==
    /\ vcpu.pc = "barrier.wait"
    /\ "device" \in barrier
    /\ vcpu' = [vcpu EXCEPT !.pc = "returned", !.ret = "Ok(())"]
    /\ barrier' = barrier \cup {"vcpu"}
    /\ UNCHANGED <<vmVars, vtVars, scenarioVars, xfer, fdsend, cfgVars, zoneVars, resizeVars, numaVars, hobVars, lockVars, sendVars, sigVars, loadVars, queryVars, mirrorVars, plugVars, domainVars>>

NextOps ==
    \/ MmioRead
    \/ MmioWrite
    \/ PioRead
    \/ PioWrite
    \/ DeviceArrives
    \/ BarrierReleased

SpecOps == Init /\ [][NextOps]_vars

----------------------------------------------------------------------------
(* Vm::send_memory_regions and Vm::receive_memory_regions *)

\* Bounds on the MemoryRangeTable: the number of ranges and their length.
MaxRanges == 2
MaxLength == 3

RangeGpas == {0, 16}

Ranges == [gpa : RangeGpas, length : 0..MaxLength]

\* The tables of at most MaxRanges ranges.
RangeTables == UNION {[1..k -> Ranges] : k \in 0..MaxRanges}

\* The transfer of the table ranges starts: `for range in ranges.regions()`
\* with `let mut offset: u64 = 0`.
StartOf(dir, ranges) ==
    IF Len(ranges) = 0
    THEN [NoTransfer EXCEPT !.pc = "returned", !.dir = dir, !.ret = "Ok(())"]
    ELSE [NoTransfer EXCEPT !.pc = "loop", !.dir = dir, !.ranges = ranges, !.i = 1]

\* The addresses of the n bytes from at on, in the order the primitive
\* (read_from, write_to) transfers them.
Transferred(at, n) == [k \in 1..n |-> at + k - 1]

\* The loop that asks for the whole range again at every call.
TransferLoop_without_offset(x, ok, n, err) ==
    LET range == x.ranges[x.i]
        at == range.gpa
        count == range.length
        call == [i |-> x.i, offset |-> x.offset, at |-> at, count |-> count, n |-> n]
        offset == x.offset + n
    IN IF ~ok
       THEN [x EXCEPT !.turn = 1 - @, !.pc = "returned", !.ret = err, !.last = call]
       ELSE IF offset # range.length
       THEN [x EXCEPT !.turn = 1 - @, !.offset = offset, !.last = call,
                      !.moved = @ \o Transferred(at, n)]
       ELSE IF x.i < Len(x.ranges)
       THEN [x EXCEPT !.turn = 1 - @, !.i = @ + 1, !.offset = 0, !.last = call,
                      !.moved = @ \o Transferred(at, n)]
       ELSE [x EXCEPT !.turn = 1 - @, !.pc = "returned", !.ret = "Ok(())", !.offset = offset,
                      !.last = call, !.moved = @ \o Transferred(at, n)]

\* One turn of the `loop` of send_memory_regions and receive_memory_regions:
\* the primitive is called at range.gpa + offset for range.length - offset
\* bytes and answers Ok(n) (ok) or Err; offset += n; on offset ==
\* range.length the loop is left for the next range, or for Ok(()).
TransferLoop(x, ok, n, err) ==
    LET range == x.ranges[x.i]
        at == range.gpa + x.offset
        count == range.length - x.offset
        call == [i |-> x.i, offset |-> x.offset, at |-> at, count |-> count, n |-> n]
        offset == x.offset + n
    IN IF ~ok
       THEN [x EXCEPT !.turn = 1 - @, !.pc = "returned", !.ret = err, !.last = call]
       ELSE IF offset # range.length
       THEN [x EXCEPT !.turn = 1 - @, !.offset = offset, !.last = call,
                      !.moved = @ \o Transferred(at, n)]
       ELSE IF x.i < Len(x.ranges)
       THEN [x EXCEPT !.turn = 1 - @, !.i = @ + 1, !.offset = 0, !.last = call,
                      !.moved = @ \o Transferred(at, n)]
       ELSE [x EXCEPT !.turn = 1 - @, !.pc = "returned", !.ret = "Ok(())", !.offset = offset,
                      !.last = call, !.moved = @ \o Transferred(at, n)]

\* Vm::send_memory_regions: one call of mem.write_to
send_memory_regions(x, ok, n) == TransferLoop(x, ok, n, "Err(MigrateSend)")

\* Vm::receive_memory_regions: one call of mem.read_from
receive_memory_regions(x, ok, n) == TransferLoop(x, ok, n, "Err(MigrateReceive)")

\* The Vm of the transfers: its configuration plays no part in them.
InitMem ==
    /\ Init
    /\ ~tdx /\ ~on_tty /\ ~stop_on_boot

SendMemoryRegions ==
    /\ xfer.pc = "idle"
    /\ \E ranges \in RangeTables : xfer' = StartOf("send", ranges)
    /\ UNCHANGED <<vmVars, vtVars, scenarioVars, opsVars, fdsend, cfgVars, zoneVars, resizeVars, numaVars, hobVars, lockVars, sendVars, sigVars, loadVars, queryVars, mirrorVars, plugVars, domainVars>>

ReceiveMemoryRegions ==
    /\ xfer.pc = "idle"
    /\ \E ranges \in RangeTables : xfer' = StartOf("receive", ranges)
    /\ UNCHANGED <<vmVars, vtVars, scenarioVars, opsVars, fdsend, cfgVars, zoneVars, resizeVars, numaVars, hobVars, lockVars, sendVars, sigVars, loadVars, queryVars, mirrorVars, plugVars, domainVars>>

\* The byte counts the primitive can answer when asked for count bytes.
Counts(x) == 0..(x.ranges[x.i].length - x.offset)

WriteTo ==
    /\ xfer.pc = "loop"
    /\ xfer.dir = "send"
    /\ \/ \E n \in Counts(xfer) : xfer' = send_memory_regions(xfer, TRUE, n)
       \/ xfer' = send_memory_regions(xfer, FALSE, 0)
    /\ UNCHANGED <<vmVars, vtVars, scenarioVars, opsVars, fdsend, cfgVars, zoneVars, resizeVars, numaVars, hobVars, lockVars, sendVars, sigVars, loadVars, queryVars, mirrorVars, plugVars, domainVars>>

ReadFrom ==
    /\ xfer.pc = "loop"
    /\ xfer.dir = "receive"
    /\ \/ \E n \in Counts(xfer) : xfer' = receive_memory_regions(xfer, TRUE, n)
       \/ xfer' = receive_memory_regions(xfer, FALSE, 0)
    /\ UNCHANGED <<vmVars, vtVars, scenarioVars, opsVars, fdsend, cfgVars, zoneVars, resizeVars, numaVars, hobVars, lockVars, sendVars, sigVars, loadVars, queryVars, mirrorVars, plugVars, domainVars>>

NextMem ==
    \/ SendMemoryRegions
    \/ ReceiveMemoryRegions
    \/ WriteTo
    \/ ReadFrom

SpecMem == InitMem /\ [][NextMem]_vars

\* The thread that runs the loop is scheduled again and again: a call of the
\* primitive that can be made is made.  Nothing is assumed of what the
\* primitive answers.
SpecMemLive == SpecMem /\ WF_vars(WriteTo) /\ WF_vars(ReadFrom)

----------------------------------------------------------------------------
(* Vm::send_memory_fds *)

\* Bound on the memory slots that memory_slot_fds() yields.
MaxSlots == 3

\* size_of_val(&slot) of a slot: u32
SlotSize == 4

\* A call on the socket: what was sent or read, and whether it went through.
Wire(call, arg, ok) == [call |-> call, arg |-> arg, ok |-> ok]

\* What the socket and the peer do in one turn of the loop: the write of
\* the request, send_with_fd and the write of the abandon request go through
\* or fail; the response read is Ok, Error, or the read fails ("none").
PeerAnswers ==
    [request : BOOLEAN, fd : BOOLEAN, response : {"Ok", "Error", "none"},
     abandon : BOOLEAN]

\* The turn has failed with the error ret after the calls made.
FdSendFailed(f, made, ret) ==
    [f EXCEPT !.pc = "returned", !.wire = @ \o made, !.ret = ret]

\* send_memory_fds that goes on with the next pair after a response that is
\* not Ok.
send_memory_fds_ignoring_status(f, slot, a) ==
    LET request == Wire("Request::memory_fd", SlotSize, a.request)
        fd == Wire("send_with_fd", slot, a.fd)
        response == Wire("Response::read_from", a.response, a.response # "none")
    IN IF ~a.request THEN FdSendFailed(f, <<request>>, "Err(MigrateSend)")
       ELSE IF ~a.fd THEN FdSendFailed(f, <<request, fd>>, "Err(MigrateSend)")
       ELSE IF a.response = "none"
       THEN FdSendFailed(f, <<request, fd, response>>, "Err(MigrateReceive)")
       ELSE IF f.pending = {slot}
       THEN [f EXCEPT !.pc = "returned", !.pending = {}, !.ret = "Ok(())",
                      !.wire = @ \o <<request, fd, response>>]
       ELSE [f EXCEPT !.pending = @ \ {slot},
                      !.wire = @ \o <<request, fd, response>>]

\* Vm::send_memory_fds: one turn of the loop, for the pair of slot, with
\* the answers a of the socket and the peer
send_memory_fds(f, slot, a) ==
    LET request == Wire("Request::memory_fd", SlotSize, a.request)
        fd == Wire("send_with_fd", slot, a.fd)
        response == Wire("Response::read_from", a.response, a.response # "none")
        abandon == Wire("Request::abandon", 0, a.abandon)
        ignored == Wire("Response::read_from", "ignored", TRUE)
    IN IF ~a.request THEN FdSendFailed(f, <<request>>, "Err(MigrateSend)")
       ELSE IF ~a.fd THEN FdSendFailed(f, <<request, fd>>, "Err(MigrateSend)")
       ELSE IF a.response = "none"
       THEN FdSendFailed(f, <<request, fd, response>>, "Err(MigrateReceive)")
       ELSE IF a.response # "Ok"
       THEN IF ~a.abandon
            THEN FdSendFailed(f, <<request, fd, response, abandon>>, "Err(MigrateSend)")
            ELSE FdSendFailed(f, <<request, fd, response, abandon, ignored>>,
                              "Err(MigrateSend)")
       ELSE IF f.pending = {slot}
       THEN [f EXCEPT !.pc = "returned", !.pending = {}, !.ret = "Ok(())",
                      !.wire = @ \o <<request, fd, response>>]
       ELSE [f EXCEPT !.pending = @ \ {slot},
                      !.wire = @ \o <<request, fd, response>>]

\* send_memory_fds is called: memory_slot_fds() yields the pairs of slots.
SendMemoryFds ==
    /\ fdsend.pc \in {"idle", "returned"}
    /\ \E slots \in SUBSET (1..MaxSlots) :
         fdsend' = IF slots = {}
                   THEN [NoFdSend EXCEPT !.pc = "returned", !.ret = "Ok(())"]
                   ELSE [NoFdSend EXCEPT !.pc = "loop", !.slots = slots,
                                         !.pending = slots]
    /\ UNCHANGED <<vmVars, vtVars, scenarioVars, opsVars, xfer, cfgVars, zoneVars, resizeVars, numaVars, hobVars, lockVars, sendVars, sigVars, loadVars, queryVars, mirrorVars, plugVars, domainVars>>

\* The next pair that drain() yields is handled.
SendFd ==
    /\ fdsend.pc = "loop"
    /\ \E slot \in fdsend.pending, a \in PeerAnswers :
         fdsend' = send_memory_fds(fdsend, slot, a)
    /\ UNCHANGED <<vmVars, vtVars, scenarioVars, opsVars, xfer, cfgVars, zoneVars, resizeVars, numaVars, hobVars, lockVars, sendVars, sigVars, loadVars, queryVars, mirrorVars, plugVars, domainVars>>

NextFds ==
    \/ SendMemoryFds
    \/ SendFd

SpecFds == InitMem /\ [][NextFds]_vars

----------------------------------------------------------------------------
(* Hotplug: Vm::add_device ... Vm::add_vsock and Vm::remove_device *)

\* The identifiers of the devices plugged.
DeviceIds == {"_dev0", "_dev1"}

\* add_to_config(&mut items, item)
add_to_config(items, item) ==
    IF items.some THEN Some(Append(items.items, item)) ELSE Some(<<item>>)

\* items.retain(|dev| dev.id != Some(id)) of an Option<Vec<T>>
Retain(items, id) ==
    IF items.some
    THEN Some(SelectSeq(items.items, LAMBDA dev : dev # id))
    ELSE items

\* The identifiers of the devices of the configuration c.
IdsOf(c) ==
    {id \in DeviceIds : \E l \in DeviceLists \cup {"vsock"} :
        \E i \in DOMAIN c[l].items : c[l].items[i] = id}

\* Vm::add_device, add_user_device, add_disk, add_fs, add_pmem, add_net and
\* add_vdpa, by the list they add to, and Vm::add_vsock: the configuration
\* after the device manager has added the device id.
add(c, list, id) ==
    IF list = "vsock"
    THEN [c EXCEPT !["vsock"] = Some(<<id>>)]
    ELSE [c EXCEPT ![list] = add_to_config(@, id)]

\* Vm::remove_device without the `if let Some(vsock)` that clears vsock.
remove_device_lists_only(c, id) ==
    [l \in DeviceLists \cup {"vsock"} |->
        IF l = "vsock" THEN c[l] ELSE Retain(c[l], id)]

\* Vm::remove_device: the configuration after the device manager has
\* removed the device id.
remove_device(c, id) ==
    [l \in DeviceLists \cup {"vsock"} |->
        IF l = "vsock"
        THEN IF c[l].some /\ c[l].items = <<id>> THEN None ELSE c[l]
        ELSE Retain(c[l], id)]

\* A device is plugged.  The device manager adds a device under an
\* identifier that is not in use, and one vsock device at most, or fails;
\* then the configuration is updated; then notify_hotplug goes through or
\* fails.
AddDevice ==
    /\ \E list \in DeviceLists \cup {"vsock"}, id \in DeviceIds \ IdsOf(config),
          added \in BOOLEAN, notified \in BOOLEAN :
         /\ list = "vsock" => ~config["vsock"].some
         /\ config' = IF added THEN add(config, list, id) ELSE config
         /\ hotplug' = [op |-> "add", id |-> id, ok |-> added /\ notified,
                        after_add |-> FALSE, before |-> config]
    /\ UNCHANGED <<vmVars, vtVars, scenarioVars, opsVars, xfer, fdsend, zoneVars, resizeVars, numaVars, hobVars, lockVars, sendVars, sigVars, loadVars, queryVars, mirrorVars, plugVars, domainVars>>

\* A device is unplugged.  The device manager removes a device it has, or
\* fails; then the configuration is updated; then notify_hotplug goes
\* through or fails.
RemoveDevice ==
    /\ \E id \in IdsOf(config), removed \in BOOLEAN, notified \in BOOLEAN :
         /\ config' = IF removed THEN remove_device(config, id) ELSE config
         /\ hotplug' = [op |-> "remove", id |-> id, ok |-> removed /\ notified,
                        after_add |-> hotplug.op = "add" /\ hotplug.ok /\ hotplug.id = id,
                        before |-> hotplug.before]
    /\ UNCHANGED <<vmVars, vtVars, scenarioVars, opsVars, xfer, fdsend, zoneVars, resizeVars, numaVars, hobVars, lockVars, sendVars, sigVars, loadVars, queryVars, mirrorVars, plugVars, domainVars>>

NextCfg ==
    \/ AddDevice
    \/ RemoveDevice

SpecCfg == InitMem /\ [][NextCfg]_vars

----------------------------------------------------------------------------
(* Memory zones: Vm::resize_zone *)

MaxZones == 2

MaxMemory == 3

ZoneIds == {"mem0", "mem1"}

\* The boot sizes of the zones.
ZoneSizes == {1, 2}

\* The zones as configured: not resized yet.
BootZones == [id : ZoneIds, size : ZoneSizes, hotplugged_size : {None}]

\* config.memory.zones: None, or a list of zones.
ZoneTables ==
    {None} \cup {Some(l) : l \in UNION {[1..n -> BootZones] : n \in 0..MaxZones}}

\* The place of the first zone of the list named id, 0 when there is none.
FirstZone(l, id) ==
    IF \E i \in DOMAIN l : l[i].id = id
    THEN CHOOSE i \in DOMAIN l :
            /\ l[i].id = id
            /\ \A j \in 1..(i - 1) : l[j].id # id
    ELSE 0

\* The outcome of a resize_zone call.
Resized(z, memory_manager, ret) == [zones |-> z, memory_manager |-> memory_manager, ret |-> ret]

\* Vm::resize_zone that stores the new size before the memory manager answers.
resize_zone_stored_early(z, id, desired_memory, accepted) ==
    LET i == FirstZone(z.items, id) IN
    IF ~z.some \/ i = 0 \/ desired_memory < z.items[i].size
    THEN Resized(z, "-", "Err(ResizeZone)")
    ELSE Resized(Some([z.items EXCEPT ![i].hotplugged_size = Some(<<desired_memory - z.items[i].size>>)]),
                 IF accepted THEN "Ok" ELSE "Err",
                 IF accepted THEN "Ok" ELSE "Err(MemoryManager)")

\* Vm::resize_zone
resize_zone(z, id, desired_memory, accepted) ==
    LET i == FirstZone(z.items, id) IN
    IF ~z.some \/ i = 0
    THEN Resized(z, "-", "Err(ResizeZone)")
    ELSE IF desired_memory >= z.items[i].size
         THEN IF accepted
              THEN Resized(Some([z.items EXCEPT ![i].hotplugged_size =
                                    Some(<<desired_memory - z.items[i].size>>)]),
                           "Ok", "Ok")
              ELSE Resized(z, "Err", "Err(MemoryManager)")
         ELSE Resized(z, "-", "Err(ResizeZone)")

\* The Vm of a configuration with any zones.
InitZones ==
    /\ InitVm
    /\ ~tdx /\ ~on_tty /\ ~stop_on_boot
    /\ vt_self = "Created"
    /\ vt_results = <<>>
    /\ pc = "none"
    /\ snapshot = NoSnapshot
    /\ InitAside
    /\ domain = NoDomain
    /\ plug = NoPlug
    /\ mirror = NoMirror
    /\ queries = NoQueries
    /\ loading = NoLoading
    /\ dispatcher = NoDispatcher
    /\ transport = NoSend
    /\ locks = NoLocks
    /\ hob = NoHob
    /\ numa = NoNuma
    /\ resources = BootResources
    /\ resizing = NoResizing
    /\ zones \in ZoneTables

\* A zone is resized; the memory manager, when asked, accepts or fails.
ResizeZone ==
    /\ \E id \in ZoneIds, desired_memory \in 0..MaxMemory, accepted \in BOOLEAN :
         LET r == resize_zone(zones, id, desired_memory, accepted) IN
         /\ zones' = r.zones
         /\ resized' = [id |-> id, desired_memory |-> desired_memory,
                        memory_manager |-> r.memory_manager, ret |-> r.ret,
                        before |-> zones]
    /\ UNCHANGED <<vmVars, vtVars, scenarioVars, opsVars, xfer, fdsend, cfgVars, resizeVars, numaVars, hobVars, lockVars, sendVars, sigVars, loadVars, queryVars, mirrorVars, plugVars, domainVars>>

NextZones ==
    \/ ResizeZone

SpecZones == InitZones /\ [][NextZones]_vars

----------------------------------------------------------------------------
(* Vm::resize *)

\* The boot sizes of the memory.
MemorySizes == {1, 2}

\* The configurations a Vm is resized from.
Resources ==
    [boot_vcpus : {1}, hotplug_method : {"Acpi", "VirtioMem"}, size : MemorySizes,
     hotplugged_size : {None}, balloon : {None, Some(<<0>>)}]

\* The call name was made and went through.
Called(x, name) == [x EXCEPT !.log = Append(@, name)]

\* The call name was made and failed: `?` returns err.
Errored(x, name, err) == [x EXCEPT !.log = Append(@, name), !.ret = err]

\* The vCPU part of resize storing boot_vcpus only when the CPU manager
\* reports a change.
resize_vcpus_stored_when_changed(x, desired_vcpus) ==
    IF x.ret # "-" \/ ~desired_vcpus.some
    THEN {x}
    ELSE LET stored(y) == [y EXCEPT !.config.boot_vcpus = desired_vcpus.items[1]]
             changed == Called(x, "cpu_manager.resize: Ok(true)")
         IN {Errored(x, "cpu_manager.resize: Err", "Err(CpuManager)"),
             Called(x, "cpu_manager.resize: Ok(false)"),
             Errored(changed, "device_manager.notify_hotplug(CPU_DEVICES_CHANGED)",
                     "Err(DeviceManager)"),
             stored(Called(changed, "device_manager.notify_hotplug(CPU_DEVICES_CHANGED)"))}

\* `if let Some(desired_vcpus) = desired_vcpus { .. }`: every way it can go.
resize_vcpus(x, desired_vcpus) ==
    IF x.ret # "-" \/ ~desired_vcpus.some
    THEN {x}
    ELSE LET stored(y) == [y EXCEPT !.config.boot_vcpus = desired_vcpus.items[1]]
             changed == Called(x, "cpu_manager.resize: Ok(true)")
         IN {Errored(x, "cpu_manager.resize: Err", "Err(CpuManager)"),
             stored(Called(x, "cpu_manager.resize: Ok(false)")),
             Errored(changed, "device_manager.notify_hotplug(CPU_DEVICES_CHANGED)",
                     "Err(DeviceManager)"),
             stored(Called(changed, "device_manager.notify_hotplug(CPU_DEVICES_CHANGED)"))}

\* The update of memory_config that takes the size asked under both methods.
update_memory_config_as_acpi(c, desired_memory) ==
    [c EXCEPT !.size = desired_memory]

\* `match memory_config.hotplug_method` that updates the VM config.
update_memory_config(c, desired_memory) ==
    IF c.hotplug_method = "Acpi"
    THEN [c EXCEPT !.size = desired_memory]
    ELSE IF desired_memory > c.size
         THEN [c EXCEPT !.hotplugged_size = Some(<<desired_memory - c.size>>)]
         ELSE [c EXCEPT !.hotplugged_size = None]

\* The memory resize that notifies before it updates the device manager.
resize_memory_notified_first(x, desired_memory) ==
    IF x.ret # "-" \/ ~desired_memory.some
    THEN {x}
    ELSE LET stored(y) == [y EXCEPT !.config =
                                update_memory_config(@, desired_memory.items[1])]
             region == Called(x, "memory_manager.resize: Ok(Some(region))")
             notified == Called(region, "device_manager.notify_hotplug(MEMORY_DEVICES_CHANGED)")
         IN {stored(Called(x, "memory_manager.resize: Ok(None)")),
             stored(Called(notified, "device_manager.update_memory"))}

\* `if let Some(desired_memory) = desired_memory { .. }`: every way it can go.
resize_memory(x, desired_memory) ==
    IF x.ret # "-" \/ ~desired_memory.some
    THEN {x}
    ELSE LET stored(y) == [y EXCEPT !.config =
                                update_memory_config(@, desired_memory.items[1])]
             region == Called(x, "memory_manager.resize: Ok(Some(region))")
             updated == Called(region, "device_manager.update_memory")
         IN {Errored(x, "memory_manager.resize: Err", "Err(MemoryManager)"),
             stored(Called(x, "memory_manager.resize: Ok(None)")),
             Errored(region, "device_manager.update_memory", "Err(DeviceManager)")}
            \cup
            IF x.config.hotplug_method = "Acpi"
            THEN {Errored(updated, "device_manager.notify_hotplug(MEMORY_DEVICES_CHANGED)",
                          "Err(DeviceManager)"),
                  stored(Called(updated, "device_manager.notify_hotplug(MEMORY_DEVICES_CHANGED)"))}
            ELSE {stored(updated)}

\* `if let Some(desired_balloon) = desired_balloon { .. }`: every way it can go.
resize_balloon(x, desired_balloon) ==
    IF x.ret # "-" \/ ~desired_balloon.some
    THEN {x}
    ELSE {Errored(x, "device_manager.resize_balloon", "Err(DeviceManager)"),
          [Called(x, "device_manager.resize_balloon") EXCEPT !.config.balloon =
              IF @.some THEN desired_balloon ELSE @]}

\* Vm::resize: the outcomes of the call on the configuration c.
resize(c, desired_vcpus, desired_memory, desired_balloon) ==
    LET called == [config |-> c, log |-> <<>>, ret |-> "-"]
        vcpus == resize_vcpus(called, desired_vcpus)
        memory == UNION {resize_memory(x, desired_memory) : x \in vcpus}
        balloon == UNION {resize_balloon(x, desired_balloon) : x \in memory}
    IN {IF x.ret = "-" THEN [x EXCEPT !.ret = "Ok(())"] ELSE x : x \in balloon}

\* The Vm of any configuration of its resources.
InitResize ==
    /\ InitVm
    /\ ~tdx /\ ~on_tty /\ ~stop_on_boot
    /\ vt_self = "Created"
    /\ vt_results = <<>>
    /\ pc = "none"
    /\ snapshot = NoSnapshot
    /\ InitAside
    /\ domain = NoDomain
    /\ plug = NoPlug
    /\ mirror = NoMirror
    /\ queries = NoQueries
    /\ loading = NoLoading
    /\ dispatcher = NoDispatcher
    /\ transport = NoSend
    /\ locks = NoLocks
    /\ hob = NoHob
    /\ numa = NoNuma
    /\ zones = None
    /\ resources \in Resources
    /\ resizing = NoResizing

\* The Vm is resized.
Resize ==
    /\ \E desired_vcpus \in {None, Some(<<1>>), Some(<<2>>)},
          desired_memory \in {None} \cup {Some(<<m>>) : m \in 0..MaxMemory},
          desired_balloon \in {None, Some(<<1>>)} :
         \E r \in resize(resources, desired_vcpus, desired_memory, desired_balloon) :
            /\ resources' = r.config
            /\ resizing' = [desired_vcpus |-> desired_vcpus,
                            desired_memory |-> desired_memory,
                            desired_balloon |-> desired_balloon,
                            log |-> r.log, ret |-> r.ret, before |-> resources]
    /\ UNCHANGED <<vmVars, vtVars, scenarioVars, opsVars, xfer, fdsend, cfgVars, zoneVars, numaVars, hobVars, lockVars, sendVars, sigVars, loadVars, queryVars, mirrorVars, plugVars, domainVars>>

NextResize ==
    \/ Resize

SpecResize == InitResize /\ [][NextResize]_vars

----------------------------------------------------------------------------
(* Vm::create_numa_nodes *)

\* Bounds on the NUMA configuration: its entries, the distances of an entry.
MaxNodes == 2

MaxDistances == 2

GuestNumaIds == {0, 1}

\* The memory zones of the memory manager: mm.memory_zones()
MmZones == {"mem0"}

\* `distances: Option<Vec<NumaDistance>>`
Distances ==
    {None} \cup {Some(l) : l \in UNION {[1..n -> [destination : GuestNumaIds, distance : {20}]] :
                                            n \in 0..MaxDistances}}

\* NumaConfig
NumaConfigs ==
    [guest_numa_id : GuestNumaIds,
     memory_zones : {None, Some(<<"mem0">>), Some(<<"mem1">>)},
     distances : Distances]

\* `configs: Option<Vec<NumaConfig>>`
NumaTables ==
    {None} \cup {Some(l) : l \in UNION {[1..n -> NumaConfigs] : n \in 0..MaxNodes}}

\* A NumaNode without a zone and a distance: NumaNode::default()
DefaultNode == [memory_zones |-> <<>>, distances |-> <<>>]

\* `return Err(Error::InvalidNumaConfig)` out of the turn of an entry.
InvalidEntry == [ok |-> FALSE, node |-> DefaultNode]

\* `for distance in distances.iter()`: the distances of the node from the
\* i-th on, added to the ones set; not ok at an unknown or repeated
\* destination.
RECURSIVE NodeDistances(_, _, _, _)
NodeDistances(distances, i, set, configs) ==
    IF i > Len(distances)
    THEN [ok |-> TRUE, set |-> set]
    ELSE LET dest == distances[i].destination
             dist == distances[i].distance
         IN IF ~\E k \in DOMAIN configs : configs[k].guest_numa_id = dest
            THEN [ok |-> FALSE, set |-> <<>>]
            ELSE IF dest \in DOMAIN set
            THEN [ok |-> FALSE, set |-> <<>>]
            ELSE NodeDistances(distances, i + 1, set @@ (dest :> dist), configs)

\* The NumaNode of an entry that takes the place of the node of the same id.
numa_node_unchecked_id(entry, configs, numa_nodes, sgx_known) ==
    LET distances == NodeDistances(entry.distances.items, 1, <<>>, configs)
    IN IF \E z \in DOMAIN entry.memory_zones.items :
             entry.memory_zones.items[z] \notin MmZones
       THEN InvalidEntry
       ELSE IF ~distances.ok
       THEN InvalidEntry
       ELSE IF ~sgx_known
       THEN InvalidEntry
       ELSE [ok |-> TRUE,
             node |-> [memory_zones |-> entry.memory_zones.items,
                       distances |-> distances.set]]

\* One turn of `for config in configs.iter()`: the NumaNode of the entry.
\* sgx_known: the SGX EPC sections of the entry are known to the memory
\* manager.
numa_node(entry, configs, numa_nodes, sgx_known) ==
    LET distances == NodeDistances(entry.distances.items, 1, <<>>, configs)
    IN IF entry.guest_numa_id \in DOMAIN numa_nodes
       THEN InvalidEntry
       ELSE IF \E z \in DOMAIN entry.memory_zones.items :
                  entry.memory_zones.items[z] \notin MmZones
       THEN InvalidEntry
       ELSE IF ~distances.ok
       THEN InvalidEntry
       ELSE IF ~sgx_known
       THEN InvalidEntry
       ELSE [ok |-> TRUE,
             node |-> [memory_zones |-> entry.memory_zones.items,
                       distances |-> distances.set]]

\* The loop from the i-th entry on; sgx_unknown is the place of the entry
\* whose SGX EPC sections the memory manager does not know, 0 for none.
RECURSIVE NumaNodesFrom(_, _, _, _)
NumaNodesFrom(configs, i, numa_nodes, sgx_unknown) ==
    IF i > Len(configs)
    THEN [ret |-> "Ok", numa_nodes |-> numa_nodes]
    ELSE LET turn == numa_node(configs[i], configs, numa_nodes, sgx_unknown # i)
         IN IF ~turn.ok
            THEN [ret |-> "Err(InvalidNumaConfig)", numa_nodes |-> <<>>]
            ELSE NumaNodesFrom(configs, i + 1,
                               [id \in DOMAIN numa_nodes \cup {configs[i].guest_numa_id} |->
                                   IF id = configs[i].guest_numa_id
                                   THEN turn.node
                                   ELSE numa_nodes[id]],
                               sgx_unknown)

\* Vm::create_numa_nodes
create_numa_nodes(configs, sgx_unknown) ==
    NumaNodesFrom(configs.items, 1, <<>>, sgx_unknown)

\* The Vm is about to be made of any NUMA configuration.
InitNuma ==
    /\ InitVm
    /\ ~tdx /\ ~on_tty /\ ~stop_on_boot
    /\ vt_self = "Created"
    /\ vt_results = <<>>
    /\ pc = "none"
    /\ snapshot = NoSnapshot
    /\ InitAside
    /\ domain = NoDomain
    /\ plug = NoPlug
    /\ mirror = NoMirror
    /\ queries = NoQueries
    /\ loading = NoLoading
    /\ dispatcher = NoDispatcher
    /\ transport = NoSend
    /\ locks = NoLocks
    /\ hob = NoHob
    /\ zones = None
    /\ resources = BootResources
    /\ resizing = NoResizing
    /\ \E configs \in NumaTables : numa = [NoNuma EXCEPT !.configs = configs]

\* Vm::new, new_from_snapshot and new_from_migration call create_numa_nodes.
CreateNumaNodes ==
    /\ numa.ret = "-"
    /\ \E sgx_unknown \in 0..Len(numa.configs.items) :
         LET r == create_numa_nodes(numa.configs, sgx_unknown) IN
         numa' = [numa EXCEPT !.ret = r.ret, !.numa_nodes = r.numa_nodes]
    /\ UNCHANGED <<vmVars, vtVars, scenarioVars, opsVars, xfer, fdsend, cfgVars, zoneVars, resizeVars, hobVars, lockVars, sendVars, sigVars, loadVars, queryVars, mirrorVars, plugVars, domainVars>>

NextNuma ==
    \/ CreateNumaNodes

SpecNuma == InitNuma /\ [][NextNuma]_vars

----------------------------------------------------------------------------
(* Vm::hob_memory_resources *)

\* Bounds on the inputs drawn: the last address, the numbers of sections and
\* of RAM regions.
MaxAddress == 5

MaxSections == 2

MaxRegions == 2

\* u64 arithmetic wraps at WordSize: 2^64 scaled down to 2^30, above every
\* address of the documented scenarios.
WordSize == 1073741824

wrapping_sub(a, b) == (a - b + WordSize) % WordSize

wrapping_add(a, b) == (a + b) % WordSize

\* test_hob_memory_resources: the sections as given (descending), the RAM
\* ranges as (start, size) and the list expected.
DocumentedScenarios ==
    <<
        \* Case 1: Two TDVF sections in the middle of the RAM
        [sections |-> <<[address |-> 49152, size |-> 4096], [address |-> 4096, size |-> 16384]>>,
         guest_ranges |-> <<[address |-> 0, size |-> 268435456]>>,
         expected |-> <<<<0, 4096, TRUE>>,
                         <<4096, 16384, FALSE>>,
                         <<20480, 28672, TRUE>>,
                         <<49152, 4096, FALSE>>,
                         <<53248, 268382208, TRUE>>>>],
        \* Case 2: Two TDVF sections with no conflict with the RAM
        [sections |-> <<[address |-> 268439552, size |-> 4096], [address |-> 0, size |-> 4096]>>,
         guest_ranges |-> <<[address |-> 4096, size |-> 268435456]>>,
         expected |-> <<<<0, 4096, FALSE>>,
                         <<4096, 268435456, TRUE>>,
                         <<268439552, 4096, FALSE>>>>],
        \* Case 3: Two TDVF sections with partial conflicts with the RAM
        [sections |-> <<[address |-> 268435456, size |-> 8192], [address |-> 0, size |-> 8192]>>,
         guest_ranges |-> <<[address |-> 4096, size |-> 268435456]>>,
         expected |-> <<<<0, 8192, FALSE>>,
                         <<8192, 268427264, TRUE>>,
                         <<268435456, 8192, FALSE>>>>],
        \* Case 4: Two TDVF sections with no conflict before the RAM and two more with no conflict after the RAM
        [sections |-> <<[address |-> 536875008, size |-> 4096], [address |-> 536870912, size |-> 4096], [address |-> 4096, size |-> 4096], [address |-> 0, size |-> 4096]>>,
         guest_ranges |-> <<[address |-> 16384, size |-> 268435456]>>,
         expected |-> <<<<0, 4096, FALSE>>,
                         <<4096, 4096, FALSE>>,
                         <<16384, 268435456, TRUE>>,
                         <<536870912, 4096, FALSE>>,
                         <<536875008, 4096, FALSE>>>>],
        \* Case 5: One TDVF section overriding the entire RAM
        [sections |-> <<[address |-> 0, size |-> 536870912]>>,
         guest_ranges |-> <<[address |-> 4096, size |-> 268435456]>>,
         expected |-> <<<<0, 536870912, FALSE>>>>],
        \* Case 6: Two TDVF sections with no conflict with 2 RAM regions
        [sections |-> <<[address |-> 268443648, size |-> 8192], [address |-> 0, size |-> 8192]>>,
         guest_ranges |-> <<[address |-> 8192, size |-> 268435456], [address |-> 268451840, size |-> 268435456]>>,
         expected |-> <<<<0, 8192, FALSE>>,
                         <<8192, 268435456, TRUE>>,
                         <<268443648, 8192, FALSE>>,
                         <<268451840, 268435456, TRUE>>>>],
        \* Case 7: Two TDVF sections with partial conflicts with 2 RAM regions
        [sections |-> <<[address |-> 268435456, size |-> 16384], [address |-> 0, size |-> 16384]>>,
         guest_ranges |-> <<[address |-> 4096, size |-> 268435456], [address |-> 268447744, size |-> 268435456]>>,
         expected |-> <<<<0, 16384, FALSE>>,
                         <<16384, 268419072, TRUE>>,
                         <<268435456, 16384, FALSE>>,
                         <<268451840, 268431360, TRUE>>>>]>>

\* The stretches [address, address + size) up to MaxAddress.
Stretches ==
    {s \in [address : 0..MaxAddress, size : 1..(MaxAddress + 1)] :
        s.address + s.size <= MaxAddress + 1}

\* The lists of n stretches that are disjoint and in ascending order.
Ascending(n) ==
    {l \in [1..n -> Stretches] :
        \A i \in 1..(n - 1) : l[i].address + l[i].size <= l[i + 1].address}

\* sort_by_key(address) and reverse() of populate_tdx_sections
Reverse(l) == [i \in 1..Len(l) |-> l[Len(l) + 1 - i]]

\* What hob_memory_resources is called with: the documented scenarios, and
\* every list of sorted disjoint sections with every GuestMemoryMmap of
\* disjoint regions.
HobInputs ==
    {[sections |-> DocumentedScenarios[k].sections,
      guest_ranges |-> DocumentedScenarios[k].guest_ranges] :
        k \in DOMAIN DocumentedScenarios}
    \cup
    {[sections |-> Reverse(s), guest_ranges |-> g] :
        s \in UNION {Ascending(n) : n \in 0..MaxSections},
        g \in UNION {Ascending(n) : n \in 1..MaxRegions}}

\* sorted_sections.pop() into current_section
Pop(h) ==
    IF Len(h.sorted_sections) = 0
    THEN [h EXCEPT !.current_section = None]
    ELSE [h EXCEPT !.current_section = Some(<<h.sorted_sections[Len(h.sorted_sections)]>>),
                   !.sorted_sections = SubSeq(@, 1, Len(@) - 1)]

\* The choice of (start, size, ram) that gives the RAM up to the end of the
\* region, whatever section lies ahead.
NextResource_to_region_end(h, region_end) ==
    IF h.current_section.some /\ h.current_section.items[1].address <= h.next_start_addr
    THEN [start |-> h.current_section.items[1].address,
          size |-> h.current_section.items[1].size, ram |-> FALSE, underflow |-> FALSE]
    ELSE [start |-> h.next_start_addr,
          size |-> wrapping_add(wrapping_sub(region_end, h.next_start_addr), 1),
          ram |-> TRUE, underflow |-> region_end < h.next_start_addr]

\* `let (start, size, ram) = ..`; underflow: a subtraction went below 0.
NextResource(h, region_end) ==
    IF h.current_section.some
    THEN LET section == h.current_section.items[1] IN
         IF section.address <= h.next_start_addr
         THEN [start |-> section.address, size |-> section.size, ram |-> FALSE,
               underflow |-> FALSE]
         ELSE LET last_addr == IF section.address - 1 < region_end
                               THEN section.address - 1 ELSE region_end
              IN [start |-> h.next_start_addr,
                  size |-> wrapping_add(wrapping_sub(last_addr, h.next_start_addr), 1),
                  ram |-> TRUE, underflow |-> last_addr < h.next_start_addr]
    ELSE [start |-> h.next_start_addr,
          size |-> wrapping_add(wrapping_sub(region_end, h.next_start_addr), 1),
          ram |-> TRUE, underflow |-> region_end < h.next_start_addr]

\* The `loop` of a region.
RECURSIVE Interleave(_, _, _)
Interleave(h, region_start, region_end) ==
    LET r == NextResource(h, region_end)
        pushed == [h EXCEPT !.list = Append(@, <<r.start, r.size, r.ram>>),
                            !.underflow = @ \/ r.underflow]
        popped == IF ~r.ram THEN Pop(pushed) ELSE pushed
        after == wrapping_add(r.start, r.size)
        next == IF region_start > after THEN region_start ELSE after
        h2 == [popped EXCEPT !.next_start_addr = next]
    IN IF next > region_end THEN h2 ELSE Interleave(h2, region_start, region_end)

\* `for region in guest_memory.iter()` from the i-th region on.
RECURSIVE Regions(_, _, _)
Regions(h, guest_memory, i) ==
    IF i > Len(guest_memory)
    THEN h
    ELSE LET region_start == guest_memory[i].address
             region_end == guest_memory[i].address + guest_memory[i].size - 1
             h1 == [h EXCEPT !.next_start_addr =
                                IF region_start > @ THEN region_start ELSE @]
         IN Regions(Interleave(h1, region_start, region_end), guest_memory, i + 1)

\* `while let Some(section) = sorted_sections.pop()`
RECURSIVE PullRemaining(_, _)
PullRemaining(list, sorted_sections) ==
    IF Len(sorted_sections) = 0
    THEN list
    ELSE LET section == sorted_sections[Len(sorted_sections)] IN
         PullRemaining(Append(list, <<section.address, section.size, FALSE>>),
                       SubSeq(sorted_sections, 1, Len(sorted_sections) - 1))

\* Vm::hob_memory_resources: the list, and whether a subtraction underflowed.
hob_memory_resources(sorted_sections, guest_memory) ==
    LET h == Regions(Pop([list |-> <<>>, current_section |-> None,
                          sorted_sections |-> sorted_sections,
                          next_start_addr |-> 0, underflow |-> FALSE]),
                     guest_memory, 1)
        list == IF h.current_section.some
                THEN Append(h.list, <<h.current_section.items[1].address,
                                      h.current_section.items[1].size, FALSE>>)
                ELSE h.list
    IN [list |-> PullRemaining(list, h.sorted_sections), underflow |-> h.underflow]

\* The TDX Vm is about to build the HOB of any sections and RAM.
InitHob ==
    /\ InitVm
    /\ tdx /\ ~on_tty /\ ~stop_on_boot
    /\ vt_self = "Created"
    /\ vt_results = <<>>
    /\ pc = "none"
    /\ snapshot = NoSnapshot
    /\ InitAside
    /\ domain = NoDomain
    /\ plug = NoPlug
    /\ mirror = NoMirror
    /\ queries = NoQueries
    /\ loading = NoLoading
    /\ dispatcher = NoDispatcher
    /\ transport = NoSend
    /\ locks = NoLocks
    /\ zones = None
    /\ resources = BootResources
    /\ resizing = NoResizing
    /\ numa = NoNuma
    /\ \E i \in HobInputs :
         hob = [NoHob EXCEPT !.sections = i.sections, !.guest_ranges = i.guest_ranges]

\* populate_tdx_sections calls hob_memory_resources.  A subtraction that
\* underflows panics in a build with overflow checks and wraps in one
\* without.
HobMemoryResources ==
    /\ hob.ret = "-"
    /\ hob.guest_ranges # <<>>
    /\ LET r == hob_memory_resources(hob.sections, hob.guest_ranges) IN
       \/ hob' = [hob EXCEPT !.ret = "returned", !.list = r.list]
       \/ /\ r.underflow
          /\ hob' = [hob EXCEPT !.ret = "panic"]
    /\ UNCHANGED <<vmVars, vtVars, scenarioVars, opsVars, xfer, fdsend, cfgVars, zoneVars, resizeVars, numaVars, lockVars, sendVars, sigVars, loadVars, queryVars, mirrorVars, plugVars, domainVars>>

NextHob ==
    \/ HobMemoryResources

SpecHob == InitHob /\ [][NextHob]_vars

----------------------------------------------------------------------------
(* Locks                                                                   *)
(*                                                                         *)
(* Every operation of the Vm is read as the sequence of its lock events:   *)
(* a guard bound by let lives to the end of its block, a guard that is a   *)
(* temporary of an expression lives to the end of the statement, and the   *)
(* temporaries of an `if` condition die before the block is entered.       *)

Architectures == {"x86_64", "aarch64"}

Operations == {"new", "boot", "shutdown", "pause", "resume", "resize", "resize_zone",
               "add_device", "remove_device", "snapshot", "restore"}

Lock(l) == <<"lock", l>>

Unlock(l) == <<"unlock", l>>

\* self.x.lock().unwrap().f(): the guard is a temporary of the statement.
Temporary(l) == <<Lock(l), Unlock(l)>>

\* The guard of l lives while the events of body happen.
Holding(l, body) == <<Lock(l)>> \o body \o <<Unlock(l)>>

\* self.device_manager.lock().unwrap().get_interrupt_controller().unwrap()
\* .lock().unwrap().f(): both guards are temporaries of one statement.
InterruptController(body) ==
    Holding("device_manager", Holding("interrupt_controller", body))

\* Vm::configure_system, one body per architecture.
configure_system(arch) ==
    IF arch = "x86_64"
    THEN Temporary("memory_manager") \o Temporary("cpu_manager")
         \o Temporary("memory_manager") \o Temporary("config")
    ELSE Temporary("config") \o Temporary("device_manager")
         \o Temporary("cpu_manager") \o Temporary("cpu_manager")
         \o Temporary("memory_manager")
         \o Temporary("device_manager") \o Temporary("device_manager")
         \o Temporary("device_manager")
         \o InterruptController(Holding("memory_manager", Temporary("cpu_manager")))
         \o Temporary("cpu_manager")
         \o InterruptController(<<>>)

\* Vm::create_acpi_tables_locks.
create_acpi_tables_locks == Temporary("config") \o Temporary("memory_manager")

\* Vm::add_vgic_snapshot_section (aarch64).
add_vgic_snapshot_section ==
    Temporary("cpu_manager") \o InterruptController(<<>>) \o InterruptController(<<>>)

\* Vm::restore_vgic_and_enable_interrupt (aarch64).
restore_vgic_and_enable_interrupt ==
    Temporary("cpu_manager") \o InterruptController(<<>>) \o Temporary("cpu_manager")
    \o InterruptController(<<>>) \o InterruptController(<<>>) \o InterruptController(<<>>)

\* The lock events of an operation of the Vm, in program order.
LockSteps(arch, operation) ==
    CASE operation = "new" ->
           Temporary("config")
           \o (IF arch = "x86_64"
               THEN Temporary("config") \o << <<"spawn", "kernel_loader">> >>
               ELSE <<>>)
           \o Temporary("config")
           \o Holding("config", Temporary("memory_manager"))
           \o Temporary("config") \o Temporary("config")
           \o Temporary("memory_manager")
           \o (IF arch = "x86_64" THEN Temporary("device_manager") ELSE <<>>)
           \o Temporary("device_manager")
           \o (IF arch = "x86_64" THEN Temporary("device_manager") ELSE <<>>)
           \o Temporary("config") \o Temporary("config") \o Temporary("config")
      [] operation = "boot" ->
           Temporary("state")
           \o (IF arch = "x86_64" THEN create_acpi_tables_locks ELSE <<>>)
           \o (IF arch = "x86_64" THEN << <<"join", "kernel_loader">> >> ELSE Temporary("memory_manager"))
           \o Temporary("config") \o Temporary("cpu_manager")
           \o Temporary("config") \o Temporary("config")
           \o (IF arch = "aarch64" THEN create_acpi_tables_locks ELSE <<>>)
           \o configure_system(arch)
           \o Temporary("cpu_manager")
           \o Temporary("state")
      [] operation = "shutdown" ->
           Holding("state", Temporary("device_manager") \o Temporary("cpu_manager"))
      [] operation = "pause" ->
           Holding("state", Temporary("device_manager") \o Temporary("cpu_manager")
                            \o Temporary("device_manager"))
      [] operation = "resume" ->
           Holding("state", Temporary("cpu_manager") \o Temporary("device_manager"))
      [] operation = "resize" ->
           Temporary("cpu_manager") \o Temporary("device_manager") \o Temporary("config")
           \o Temporary("memory_manager")
           \o Holding("config", Temporary("device_manager") \o Temporary("device_manager"))
           \o Temporary("device_manager") \o Temporary("config")
      [] operation = "resize_zone" ->
           Holding("config", Temporary("memory_manager"))
      [] operation = "add_device" ->
           Temporary("device_manager") \o Temporary("config") \o Temporary("device_manager")
      [] operation = "remove_device" ->
           Temporary("device_manager") \o Holding("config", Temporary("device_manager"))
      [] operation = "snapshot" ->
           Temporary("config") \o Temporary("state")
           \o (IF arch = "x86_64"
               THEN Temporary("config") \o Temporary("config") \o Temporary("config")
               ELSE <<>>)
           \o Temporary("cpu_manager") \o Temporary("memory_manager")
           \o (IF arch = "aarch64" THEN add_vgic_snapshot_section ELSE <<>>)
           \o Temporary("device_manager")
      [] operation = "restore" ->
           Temporary("state")
           \o Temporary("memory_manager") \o Temporary("device_manager")
           \o Temporary("cpu_manager")
           \o (IF arch = "aarch64" THEN restore_vgic_and_enable_interrupt ELSE <<>>)
           \o Temporary("device_manager") \o Temporary("cpu_manager")
           \o Temporary("state")

\* The kernel_loader thread: generate_cmdline reads the configuration, then
\* load_kernel takes the guest memory from the memory manager.
LoaderSteps == Temporary("config") \o Temporary("memory_manager")

\* The sequence without its last occurrence of l.
RECURSIVE Released(_, _)
Released(held, l) ==
    IF held = <<>> THEN <<>>
    ELSE IF held[Len(held)] = l THEN SubSeq(held, 1, Len(held) - 1)
    ELSE Append(Released(SubSeq(held, 1, Len(held) - 1), l), held[Len(held)])

HeldBy(held) == {held[i] : i \in DOMAIN held}

\* The event an operation stands at, <<"end", "-">> past its last one.
NextEvent ==
    IF locks.op = "none" THEN <<"none", "-">>
    ELSE LET steps == LockSteps(locks.arch, locks.op) IN
         IF locks.at > Len(steps) THEN <<"end", "-">> ELSE steps[locks.at]

LoaderEvent ==
    IF locks.loader_at = 0 THEN <<"none", "-">>
    ELSE IF locks.loader_at > Len(LoaderSteps) THEN <<"end", "-">>
    ELSE LoaderSteps[locks.loader_at]

\* The build: the architecture is chosen once.
InitLocks ==
    /\ InitVm
    /\ ~tdx /\ ~on_tty /\ ~stop_on_boot
    /\ vt_self = "Created"
    /\ vt_results = <<>>
    /\ pc = "none"
    /\ snapshot = NoSnapshot
    /\ InitAside
    /\ domain = NoDomain
    /\ plug = NoPlug
    /\ mirror = NoMirror
    /\ queries = NoQueries
    /\ loading = NoLoading
    /\ dispatcher = NoDispatcher
    /\ transport = NoSend
    /\ zones = None
    /\ resources = BootResources
    /\ resizing = NoResizing
    /\ numa = NoNuma
    /\ hob = NoHob
    /\ \E a \in Architectures : locks = [NoLocks EXCEPT !.arch = a]

\* The VMM thread enters an operation; a Vm is constructed when no
\* kernel_loader of an earlier one is still at work.
BeginOperation ==
    /\ locks.op = "none"
    /\ \E o \in Operations :
         /\ o = "new" => LoaderEvent[1] \in {"none", "end"}
         /\ locks' = [locks EXCEPT !.op = o, !.at = 1, !.held = <<>>]
    /\ UNCHANGED <<vmVars, vtVars, scenarioVars, opsVars, xfer, fdsend, cfgVars, zoneVars, resizeVars, numaVars, hobVars, sendVars, sigVars, loadVars, queryVars, mirrorVars, plugVars, domainVars>>

\* Mutex::lock: waits while the other thread holds the lock.
AcquireLock ==
    /\ NextEvent[1] = "lock"
    /\ NextEvent[2] \notin HeldBy(locks.loader_held)
    /\ locks' = [locks EXCEPT !.held = Append(@, NextEvent[2]), !.at = @ + 1]
    /\ UNCHANGED <<vmVars, vtVars, scenarioVars, opsVars, xfer, fdsend, cfgVars, zoneVars, resizeVars, numaVars, hobVars, sendVars, sigVars, loadVars, queryVars, mirrorVars, plugVars, domainVars>>

\* The guard is dropped.
ReleaseLock ==
    /\ NextEvent[1] = "unlock"
    /\ locks' = [locks EXCEPT !.held = Released(@, NextEvent[2]), !.at = @ + 1]
    /\ UNCHANGED <<vmVars, vtVars, scenarioVars, opsVars, xfer, fdsend, cfgVars, zoneVars, resizeVars, numaVars, hobVars, sendVars, sigVars, loadVars, queryVars, mirrorVars, plugVars, domainVars>>

\* load_kernel_async: the kernel_loader thread starts.
SpawnLoader ==
    /\ NextEvent[1] = "spawn"
    /\ locks' = [locks EXCEPT !.loader_at = 1, !.loader_held = <<>>, !.at = @ + 1]
    /\ UNCHANGED <<vmVars, vtVars, scenarioVars, opsVars, xfer, fdsend, cfgVars, zoneVars, resizeVars, numaVars, hobVars, sendVars, sigVars, loadVars, queryVars, mirrorVars, plugVars, domainVars>>

\* entry_point: joins the kernel_loader thread, if there is one.
JoinLoader ==
    /\ NextEvent[1] = "join"
    /\ LoaderEvent[1] \in {"none", "end"}
    /\ locks' = [locks EXCEPT !.loader_at = 0, !.at = @ + 1]
    /\ UNCHANGED <<vmVars, vtVars, scenarioVars, opsVars, xfer, fdsend, cfgVars, zoneVars, resizeVars, numaVars, hobVars, sendVars, sigVars, loadVars, queryVars, mirrorVars, plugVars, domainVars>>

\* The operation returns.
EndOperation ==
    /\ NextEvent[1] = "end"
    /\ locks' = [locks EXCEPT !.op = "none", !.at = 0]
    /\ UNCHANGED <<vmVars, vtVars, scenarioVars, opsVars, xfer, fdsend, cfgVars, zoneVars, resizeVars, numaVars, hobVars, sendVars, sigVars, loadVars, queryVars, mirrorVars, plugVars, domainVars>>

\* The kernel_loader thread takes or drops a lock.
LoaderStep ==
    /\ LoaderEvent[1] \in {"lock", "unlock"}
    /\ LoaderEvent[1] = "lock" => LoaderEvent[2] \notin HeldBy(locks.held)
    /\ locks' = [locks EXCEPT
                   !.loader_held = IF LoaderEvent[1] = "lock"
                                   THEN Append(@, LoaderEvent[2])
                                   ELSE Released(@, LoaderEvent[2]),
                   !.loader_at = @ + 1]
    /\ UNCHANGED <<vmVars, vtVars, scenarioVars, opsVars, xfer, fdsend, cfgVars, zoneVars, resizeVars, numaVars, hobVars, sendVars, sigVars, loadVars, queryVars, mirrorVars, plugVars, domainVars>>

NextLocks ==
    \/ BeginOperation
    \/ AcquireLock
    \/ ReleaseLock
    \/ SpawnLoader
    \/ JoinLoader
    \/ EndOperation
    \/ LoaderStep

SpecLocks == InitLocks /\ [][NextLocks]_vars

----------------------------------------------------------------------------
(* Transport: send                                                         *)
(*                                                                         *)
(* A file of the destination is "absent", "foreign" (it was there before   *)
(* any send), "empty" (created and not written), or named by what send     *)
(* wrote into it, whole or only a first part of it.                         *)

SNAPSHOT_CONFIG_FILE == "config"

SNAPSHOT_STATE_FILE == "state"

SnapshotFiles == {SNAPSHOT_CONFIG_FILE, SNAPSHOT_STATE_FILE}

\* What send serializes into the file.
Serialized(name) == IF name = SNAPSHOT_CONFIG_FILE THEN "VmConfig" ELSE "Snapshot"

Part(data) == data \o " (part)"

\* The destinations send can meet: each file is there already, or is not.
Destinations == [SnapshotFiles -> {"absent", "foreign"}]

\* OpenOptions::new().read(true).write(true).create_new(true).open(path):
\* fails on a file that exists and leaves it alone.
create_new(files, name) ==
    IF files[name] # "absent"
    THEN {[files |-> files, ok |-> FALSE]}
    ELSE {[files |-> files, ok |-> FALSE],
          [files |-> [files EXCEPT ![name] = "empty"], ok |-> TRUE]}

\* file.write(buf): one attempt to write; Ok(n) with n the number of bytes
\* written, which may be less than buf.len(), or Err.  send does not look
\* at n.
write(files, name, data) ==
    {[files |-> [files EXCEPT ![name] = data], ok |-> TRUE],
     [files |-> [files EXCEPT ![name] = Part(data)], ok |-> TRUE],
     [files |-> files, ok |-> FALSE]}

\* The part of send for one file: the path, the file, the serialization and
\* the write.  Every way it can go: the files and the log at its end, and
\* whether send goes on.
SendFile(files, name, url_ok) ==
    IF ~url_ok
    THEN {[files |-> files, log |-> <<>>, ok |-> FALSE]}
    ELSE UNION {
      IF ~c.ok
      THEN {[files |-> c.files, log |-> <<>>, ok |-> FALSE]}
      ELSE {[files |-> c.files, log |-> <<"create_new(" \o name \o ")">>, ok |-> FALSE]}
           \cup {[files |-> w.files,
                  log |-> <<"create_new(" \o name \o ")", "write(" \o name \o ")">>,
                  ok |-> w.ok] : w \in write(c.files, name, Serialized(name))}
      : c \in create_new(files, name)}

\* The end of send: the memory manager sends its snapshot, if there is one.
SendMemory(has_memory_manager) ==
    IF has_memory_manager
    THEN {[log |-> <<"memory_manager.send">>, ret |-> "Ok"],
          [log |-> <<"memory_manager.send">>, ret |-> "Err"]}
    ELSE {[log |-> <<>>, ret |-> "Err(Restore(Missing memory manager snapshot))"]}

\* Transportable::send to a destination with the files, of a snapshot with
\* or without the child of the memory manager.
send(files, url_ok, has_memory_manager) ==
    UNION {
      IF ~c.ok
      THEN {[files |-> c.files, log |-> c.log, ret |-> "Err(MigrateSend)"]}
      ELSE UNION {
        IF ~s.ok
        THEN {[files |-> s.files, log |-> c.log \o s.log, ret |-> "Err(MigrateSend)"]}
        ELSE {[files |-> s.files, log |-> c.log \o s.log \o m.log, ret |-> m.ret]
                : m \in SendMemory(has_memory_manager)}
        : s \in SendFile(c.files, SNAPSHOT_STATE_FILE, url_ok)}
      : c \in SendFile(files, SNAPSHOT_CONFIG_FILE, url_ok)}

\* send is called on destinations of every kind.
InitSend ==
    /\ InitVm
    /\ ~tdx /\ ~on_tty /\ ~stop_on_boot
    /\ vt_self = "Created"
    /\ vt_results = <<>>
    /\ pc = "none"
    /\ snapshot = NoSnapshot
    /\ InitAside
    /\ domain = NoDomain
    /\ plug = NoPlug
    /\ mirror = NoMirror
    /\ queries = NoQueries
    /\ loading = NoLoading
    /\ dispatcher = NoDispatcher
    /\ zones = None
    /\ resources = BootResources
    /\ resizing = NoResizing
    /\ numa = NoNuma
    /\ hob = NoHob
    /\ locks = NoLocks
    /\ \E d \in Destinations : transport = [NoSend EXCEPT !.files = d, !.before = d]

\* One call of send, to the destination as the calls before left it.
Send ==
    /\ \E url_ok \in BOOLEAN, has_memory_manager \in BOOLEAN :
         \E r \in send(transport.files, url_ok, has_memory_manager) :
            transport' = [files |-> r.files, before |-> transport.files,
                          url_ok |-> url_ok,
                          has_memory_manager |-> has_memory_manager,
                          log |-> r.log, ret |-> r.ret]
    /\ UNCHANGED <<vmVars, vtVars, scenarioVars, opsVars, xfer, fdsend, cfgVars, zoneVars, resizeVars, numaVars, hobVars, lockVars, sigVars, loadVars, queryVars, mirrorVars, plugVars, domainVars>>

NextSend ==
    \/ Send

SpecSend == InitSend /\ [][NextSend]_vars

----------------------------------------------------------------------------
(* The signal dispatcher                                                   *)

\* The signals delivered to one dispatcher.
MaxSignals == 3

HANDLED_SIGNALS == {"SIGWINCH", "SIGTERM", "SIGINT"}

\* What the body of the loop of os_signal_handler does with one signal:
\* did, what it called, in order; then, where the thread stands after it.
Reaction(did, then) == [did |-> did, then |-> then]

\* The closure of the thread after a panic of os_signal_handler was caught:
\* it writes the exit event and ignores the result, and the thread ends.
Unwound(did) ==
    {Reaction(did \o <<"panic", "exit_evt.write(1): Ok">>, "panicked"),
     Reaction(did \o <<"panic", "exit_evt.write(1): Err">>, "panicked")}

\* The end of the SIGTERM | SIGINT arm: the exit event is written.
WriteExitEvent(did) ==
    {Reaction(did \o <<"exit_evt.write(1): Ok">>, "serving"),
     Reaction(did \o <<"exit_evt.write(1): Err", "process::exit(1)">>, "exited")}

\* os_signal_handler that writes the exit event on every signal.
os_signal_handler_exit_on_any(signal, tty) ==
    WriteExitEvent(<<>>)

\* Vm::os_signal_handler, the body of `for signal in signals.forever()`.
os_signal_handler(signal, tty) ==
    CASE signal = "SIGWINCH" ->
           {Reaction(<<"console.update_console_size">>, "serving")}
      [] signal \in {"SIGTERM", "SIGINT"} ->
           IF tty
           THEN WriteExitEvent(<<"set_canon_mode: Ok">>)
                  \cup Unwound(<<"set_canon_mode: Err">>)
           ELSE WriteExitEvent(<<>>)
      [] OTHER -> {Reaction(<<>>, "serving")}

\* The writes of the exit event among the calls did.
ExitWrites(did) ==
    Cardinality({i \in DOMAIN did :
                   did[i] \in {"exit_evt.write(1): Ok", "exit_evt.write(1): Err"}})

\* The Vm is on a terminal or not; no thread yet.
InitSignals ==
    /\ InitVm
    /\ ~tdx /\ ~stop_on_boot
    /\ vt_self = "Created"
    /\ vt_results = <<>>
    /\ pc = "none"
    /\ snapshot = NoSnapshot
    /\ InitAside
    /\ domain = NoDomain
    /\ plug = NoPlug
    /\ mirror = NoMirror
    /\ queries = NoQueries
    /\ loading = NoLoading
    /\ zones = None
    /\ resources = BootResources
    /\ resizing = NoResizing
    /\ numa = NoNuma
    /\ hob = NoHob
    /\ locks = NoLocks
    /\ transport = NoSend
    /\ dispatcher = NoDispatcher

\* setup_signal_handler spawned the thread: it applies its seccomp filter and
\* unblocks the handled signals, and serves; when the filter cannot be
\* applied it writes the exit event and returns; when unblock_signal fails
\* the unwrap panics.
StartDispatcher ==
    /\ dispatcher.pc = "unspawned"
    /\ \/ dispatcher' = [dispatcher EXCEPT !.pc = "serving"]
       \/ dispatcher' = [dispatcher EXCEPT !.pc = "filter failed", !.exit_evt = @ + 1]
       \/ dispatcher' = [dispatcher EXCEPT !.pc = "panicked", !.exit_evt = @ + 1]
    /\ UNCHANGED <<vmVars, vtVars, scenarioVars, opsVars, xfer, fdsend, cfgVars, zoneVars, resizeVars, numaVars, hobVars, lockVars, sendVars, loadVars, queryVars, mirrorVars, plugVars, domainVars>>

\* A handled signal is delivered to the process.
Deliver ==
    /\ dispatcher.pc # "exited"
    /\ dispatcher.delivered < MaxSignals
    /\ \E s \in HANDLED_SIGNALS :
         dispatcher' = [dispatcher EXCEPT !.pending = Append(@, s), !.delivered = @ + 1]
    /\ UNCHANGED <<vmVars, vtVars, scenarioVars, opsVars, xfer, fdsend, cfgVars, zoneVars, resizeVars, numaVars, hobVars, lockVars, sendVars, loadVars, queryVars, mirrorVars, plugVars, domainVars>>

\* signals.forever() yields the next signal and the body of the loop runs.
Serve ==
    /\ dispatcher.pc = "serving"
    /\ dispatcher.pending # <<>>
    /\ LET s == Head(dispatcher.pending) IN
       \E r \in os_signal_handler(s, on_tty) :
         dispatcher' =
           [dispatcher EXCEPT
              !.pending = Tail(@),
              !.served = Append(@, [signal |-> s, did |-> r.did]),
              !.exit_evt = @ + ExitWrites(r.did),
              !.canon = @ \/ (\E i \in DOMAIN r.did : r.did[i] = "set_canon_mode: Ok"),
              !.pc = r.then]
    /\ UNCHANGED <<vmVars, vtVars, scenarioVars, opsVars, xfer, fdsend, cfgVars, zoneVars, resizeVars, numaVars, hobVars, lockVars, sendVars, loadVars, queryVars, mirrorVars, plugVars, domainVars>>

\* shutdown(): signals.close(); forever() ends and the thread returns.
CloseSignals ==
    /\ dispatcher.pc # "unspawned"
    /\ ~dispatcher.closed
    /\ dispatcher.pc # "exited"
    /\ dispatcher' = [dispatcher EXCEPT
                        !.closed = TRUE,
                        !.pc = IF @ = "serving" THEN "returned" ELSE @]
    /\ UNCHANGED <<vmVars, vtVars, scenarioVars, opsVars, xfer, fdsend, cfgVars, zoneVars, resizeVars, numaVars, hobVars, lockVars, sendVars, loadVars, queryVars, mirrorVars, plugVars, domainVars>>

NextSignals ==
    \/ StartDispatcher
    \/ Deliver
    \/ Serve
    \/ CloseSignals

SpecSignals == InitSignals /\ [][NextSignals]_vars

----------------------------------------------------------------------------
(* Loading the kernel (x86_64)                                             *)
(*                                                                         *)
(* Sizes and guest addresses are counted in KiB: 4 << 20 bytes are 4096,   *)
(* 4 << 30 bytes are 4194304.                                               *)

\* The firmware files are of 0, 512, 1024, ... KiB, up to MaxBlocks blocks,
\* and of one KiB less and one more than the limit.
MaxBlocks == 9

FirmwareLimit == 4096

FourGiB == 4194304

FirmwareSizes ==
    {b * 512 : b \in 0..MaxBlocks} \cup {FirmwareLimit - 1, FirmwareLimit + 1}

\* What linux_loader::loader::elf::Elf::load answers for the file.
ElfLoads == {"Ok(PvhEntryPresent)", "Ok(PvhEntryNotPresent)",
             "Err(Elf(InvalidElfMagicNumber))", "Err(other)"}

\* GuestAddress::checked_sub: None below address 0.
checked_sub(address, n) == IF n > address THEN None ELSE Some(<<address - n>>)

Loaded(ret, regions, copied, calls) ==
    [ret |-> ret, regions |-> regions, copied |-> copied, log |-> calls]

\* The firmware branch without the check of the size.
load_firmware_unlimited(size) ==
    LET load_address == checked_sub(FourGiB, size).items[1]
        region == [start |-> load_address, size |-> size] IN
    {Loaded("Err(FirmwareFile)", {}, {}, <<"seek(End)">>),
     Loaded("Err(AllocateFirmwareMemory)", {}, {}, <<"seek(End)", "add_ram_region">>),
     Loaded("Ok(EntryPoint { entry_addr: None })", {region}, {region},
            <<"seek(End)", "add_ram_region", "seek(Start)", "read_exact_from">>)}

\* The branch of load_kernel for a file without the ELF magic: raw firmware,
\* loaded so that it ends at 4 GiB.  Every way it can go.
load_firmware(size) ==
    {Loaded("Err(FirmwareFile)", {}, {}, <<"seek(End)">>)}
    \cup
    (IF size > FirmwareLimit
     THEN {Loaded("Err(FirmwareTooLarge)", {}, {}, <<"seek(End)">>)}
     ELSE LET sub == checked_sub(FourGiB, size) IN
          IF ~sub.some
          THEN {Loaded("Err(FirmwareTooLarge)", {}, {}, <<"seek(End)">>)}
          ELSE LET load_address == sub.items[1]
                   region == [start |-> load_address, size |-> size] IN
               {Loaded("Err(AllocateFirmwareMemory)", {}, {},
                       <<"seek(End)", "add_ram_region">>),
                Loaded("Err(FirmwareFile)", {region}, {},
                       <<"seek(End)", "add_ram_region", "seek(Start)">>),
                Loaded("Err(FirmwareLoad)", {region}, {},
                       <<"seek(End)", "add_ram_region", "seek(Start)", "read_exact_from">>),
                Loaded("Ok(EntryPoint { entry_addr: None })", {region}, {region},
                       <<"seek(End)", "add_ram_region", "seek(Start)", "read_exact_from">>)})

\* Vm::load_kernel (x86_64) of a file of size KiB for which Elf::load
\* answers elf.
load_kernel(size, elf) ==
    CASE elf = "Err(Elf(InvalidElfMagicNumber))" -> load_firmware(size)
      [] elf = "Err(other)" -> {Loaded("Err(KernelLoad)", {}, {}, <<>>)}
      [] OTHER ->
           {Loaded("Err(LoadCmdLine)", {}, {}, <<"load_cmdline">>)}
           \cup (IF elf = "Ok(PvhEntryPresent)"
                 THEN {Loaded("Ok(EntryPoint { entry_addr: Some })", {}, {}, <<"load_cmdline">>)}
                 ELSE {Loaded("Err(KernelMissingPvhHeader)", {}, {}, <<"load_cmdline">>)})

\* The kernel file given to the Vm, and what it is.
InitLoading ==
    /\ InitVm
    /\ ~tdx /\ ~on_tty /\ ~stop_on_boot
    /\ vt_self = "Created"
    /\ vt_results = <<>>
    /\ pc = "none"
    /\ snapshot = NoSnapshot
    /\ InitAside
    /\ domain = NoDomain
    /\ plug = NoPlug
    /\ mirror = NoMirror
    /\ queries = NoQueries
    /\ zones = None
    /\ resources = BootResources
    /\ resizing = NoResizing
    /\ numa = NoNuma
    /\ hob = NoHob
    /\ locks = NoLocks
    /\ transport = NoSend
    /\ dispatcher = NoDispatcher
    /\ \E s \in FirmwareSizes, e \in ElfLoads :
         loading = [NoLoading EXCEPT !.size = s, !.elf = e]

\* The kernel_loader thread runs load_kernel.
LoadKernel ==
    /\ loading.ret = "-"
    /\ \E r \in load_kernel(loading.size, loading.elf) :
         loading' = [loading EXCEPT !.ret = r.ret, !.regions = r.regions,
                                    !.copied = r.copied, !.log = r.log]
    /\ UNCHANGED <<vmVars, vtVars, scenarioVars, opsVars, xfer, fdsend, cfgVars, zoneVars, resizeVars, numaVars, hobVars, lockVars, sendVars, sigVars, queryVars, mirrorVars, plugVars, domainVars>>

NextLoading ==
    \/ LoadKernel

SpecLoading == InitLoading /\ [][NextLoading]_vars

----------------------------------------------------------------------------
(* Read-only queries on a Vm whose locks may be poisoned                   *)

\* The manager whose mutex guard is alive in `<manager>.lock().unwrap().f()`.
ManagerOf(call) ==
    IF call \in {"device_manager.activate_virtio_devices", "device_manager.pause",
                 "device_manager.resume"}
    THEN "device_manager"
    ELSE "cpu_manager"

\* A panic inside a call of a manager unwinds through the guard of its
\* mutex and poisons it.
PoisonedBy(r) ==
    IF r.err = "Panic" /\ r.at \in PanicPoints THEN {ManagerOf(r.at)} ELSE {}

\* The runs of the operations that take the state lock without blocking.
OperationRuns(name) ==
    CASE name = "boot" ->
           UNION {Runs(boot_steps(Self, signals_ok), 1, Self) : signals_ok \in BOOLEAN}
      [] name = "shutdown" -> Runs(shutdown_steps(Self), 1, Self)
      [] name = "pause" -> Runs(pause_steps, 1, Self)
      [] name = "resume" -> Runs(resume_steps(Self), 1, Self)

\* Vm::counters: self.device_manager.lock().unwrap().counters()
counters(mutexes) ==
    IF "device_manager" \in mutexes THEN "panic" ELSE "Ok(counters)"

\* Vm::get_state
get_state(v) == IF v.poisoned THEN "Err(PoisonedState)" ELSE "Ok(" \o v.state \o ")"

\* Vm::get_config: a clone of the Arc, no lock taken.
get_config == "Arc<Mutex<VmConfig>>"

InitQueries ==
    /\ InitVm
    /\ vt_self = "Created"
    /\ vt_results = <<>>
    /\ pc = "none"
    /\ snapshot = NoSnapshot
    /\ InitAside
    /\ domain = NoDomain
    /\ plug = NoPlug
    /\ mirror = NoMirror
    /\ zones = None
    /\ resources = BootResources
    /\ resizing = NoResizing
    /\ numa = NoNuma
    /\ hob = NoHob
    /\ locks = NoLocks
    /\ transport = NoSend
    /\ dispatcher = NoDispatcher
    /\ loading = NoLoading
    /\ queries = NoQueries

\* boot, shutdown, pause or resume is called.
Operate ==
    /\ \E name \in {"boot", "shutdown", "pause", "resume"} :
         /\ name = "boot" => threads < MaxThreads
         /\ \E r \in OperationRuns(name) :
              /\ Assigned(name, r)
              /\ queries' = [mutexes |-> queries.mutexes \cup PoisonedBy(r.res),
                             asked |-> "-", answer |-> "-"]
    /\ UNCHANGED <<vtVars, scenarioVars, opsVars, xfer, fdsend, cfgVars, zoneVars, resizeVars, numaVars, hobVars, lockVars, sendVars, sigVars, loadVars, mirrorVars, plugVars, domainVars>>

\* A read-only query is made; the Vm stays as it is.
Query ==
    /\ queries.asked = "-"
    /\ \/ queries' = [queries EXCEPT !.asked = "get_state", !.answer = get_state(Self)]
       \/ queries' = [queries EXCEPT !.asked = "get_config", !.answer = get_config]
       \/ queries' = [queries EXCEPT !.asked = "counters",
                                     !.answer = counters(queries.mutexes)]
    /\ UNCHANGED <<vmVars, vtVars, scenarioVars, opsVars, xfer, fdsend, cfgVars, zoneVars, resizeVars, numaVars, hobVars, lockVars, sendVars, sigVars, loadVars, mirrorVars, plugVars, domainVars>>

NextQueries ==
    \/ Operate
    \/ Query

SpecQueries == InitQueries /\ [][NextQueries]_vars

----------------------------------------------------------------------------
(* The configuration as a mirror of the managers                           *)

\* Devices are 1..MaxDevices; vCPU counts and zone sizes go up to MaxDesired.
MaxDevices == 2

MaxDesired == 2

\* A call made at this place of the operation.
Do(what) == <<"do", what>>

\* The operations that change a manager and the configuration, as their
\* lock events and calls in program order.
MirrorSteps(operation) ==
    CASE operation = "add_device" ->
           <<Lock("device_manager"), Do("device_manager.add_device"),
             Unlock("device_manager"),
             Lock("config"), Do("add_to_config"), Unlock("config"),
             Lock("device_manager"), Do("device_manager.notify_hotplug"),
             Unlock("device_manager")>>
      [] operation = "remove_device" ->
           <<Lock("device_manager"), Do("device_manager.remove_device"),
             Unlock("device_manager"),
             Lock("config"), Do("config.retain"),
             Lock("device_manager"), Do("device_manager.notify_hotplug"),
             Unlock("device_manager"), Unlock("config")>>
      [] operation = "resize" ->
           <<Lock("cpu_manager"), Do("cpu_manager.resize"), Unlock("cpu_manager"),
             Lock("device_manager"), Do("device_manager.notify_hotplug"),
             Unlock("device_manager"),
             Lock("config"), Do("config.cpus.boot_vcpus = desired"), Unlock("config")>>
      [] operation = "resize_zone" ->
           <<Lock("config"),
             Lock("memory_manager"), Do("memory_manager.resize_zone"),
             Unlock("memory_manager"),
             Do("zone.hotplugged_size = desired"), Unlock("config")>>

\* The calls that return a Result, which the operation returns with `?`.
Fallible == {"device_manager.add_device", "device_manager.remove_device",
             "device_manager.notify_hotplug", "cpu_manager.resize",
             "memory_manager.resize_zone"}

\* What a call that succeeds changes.
Done(m, what) ==
    CASE what = "device_manager.add_device" ->
           [m EXCEPT !.dm_devices = @ \cup {m.arg}]
      [] what = "add_to_config" ->
           [m EXCEPT !.config_devices = @ \cup {m.arg}]
      [] what = "device_manager.remove_device" ->
           [m EXCEPT !.dm_devices = @ \ {m.arg}]
      [] what = "config.retain" ->
           [m EXCEPT !.config_devices = @ \ {m.arg}]
      [] what = "cpu_manager.resize" -> [m EXCEPT !.cpu_vcpus = m.arg]
      [] what = "config.cpus.boot_vcpus = desired" -> [m EXCEPT !.config_vcpus = m.arg]
      [] what = "memory_manager.resize_zone" -> [m EXCEPT !.mm_zone = m.arg]
      [] what = "zone.hotplugged_size = desired" -> [m EXCEPT !.config_zone = m.arg]
      [] OTHER -> m

\* The configuration says what the managers have.
Agrees(m) ==
    /\ m.config_devices = m.dm_devices
    /\ m.config_vcpus = m.cpu_vcpus
    /\ m.config_zone = m.mm_zone

MirrorEvent ==
    IF mirror.op = "none" THEN <<"none", "-">>
    ELSE LET steps == MirrorSteps(mirror.op) IN
         IF mirror.at > Len(steps) THEN <<"end", "-">> ELSE steps[mirror.at]

InitMirror ==
    /\ InitVm
    /\ ~tdx /\ ~on_tty /\ ~stop_on_boot
    /\ vt_self = "Created"
    /\ vt_results = <<>>
    /\ pc = "none"
    /\ snapshot = NoSnapshot
    /\ InitAside
    /\ domain = NoDomain
    /\ plug = NoPlug
    /\ zones = None
    /\ resources = BootResources
    /\ resizing = NoResizing
    /\ numa = NoNuma
    /\ hob = NoHob
    /\ locks = NoLocks
    /\ transport = NoSend
    /\ dispatcher = NoDispatcher
    /\ loading = NoLoading
    /\ queries = NoQueries
    /\ mirror = NoMirror

\* The VMM thread enters an operation: a device the device manager has not
\* is added, one it has is removed, or a size is asked for.
BeginMirror ==
    /\ mirror.op = "none"
    /\ \E o \in {"add_device", "remove_device", "resize", "resize_zone"},
          a \in 0..MaxDesired :
         /\ o = "add_device" => a \in (1..MaxDevices) \ mirror.dm_devices
         /\ o = "remove_device" => a \in mirror.dm_devices
         /\ o = "resize" => a >= 1
         /\ mirror' = [mirror EXCEPT !.op = o, !.arg = a, !.at = 1, !.held = <<>>,
                                     !.observed = "-"]
    /\ UNCHANGED <<vmVars, vtVars, scenarioVars, opsVars, xfer, fdsend, cfgVars, zoneVars, resizeVars, numaVars, hobVars, lockVars, sendVars, sigVars, loadVars, queryVars, plugVars, domainVars>>

\* The next lock event or call of the operation; a fallible call may fail,
\* and then the operation returns and its guards are dropped.
MirrorStep ==
    /\ MirrorEvent[1] \in {"lock", "unlock", "do"}
    /\ LET e == MirrorEvent IN
       \/ /\ e[1] = "lock"
          /\ mirror' = [mirror EXCEPT !.held = Append(@, e[2]), !.at = @ + 1]
       \/ /\ e[1] = "unlock"
          /\ mirror' = [mirror EXCEPT !.held = Released(@, e[2]), !.at = @ + 1]
       \/ /\ e[1] = "do"
          /\ mirror' = [Done(mirror, e[2]) EXCEPT !.at = @ + 1]
       \/ /\ e[1] = "do"
          /\ e[2] \in Fallible
          /\ mirror' = [mirror EXCEPT !.op = "none", !.at = 0, !.held = <<>>]
    /\ UNCHANGED <<vmVars, vtVars, scenarioVars, opsVars, xfer, fdsend, cfgVars, zoneVars, resizeVars, numaVars, hobVars, lockVars, sendVars, sigVars, loadVars, queryVars, plugVars, domainVars>>

\* The operation returns.
EndMirror ==
    /\ MirrorEvent[1] = "end"
    /\ mirror' = [mirror EXCEPT !.op = "none", !.at = 0]
    /\ UNCHANGED <<vmVars, vtVars, scenarioVars, opsVars, xfer, fdsend, cfgVars, zoneVars, resizeVars, numaVars, hobVars, lockVars, sendVars, sigVars, loadVars, queryVars, plugVars, domainVars>>

\* Another holder of the Arc<Mutex<VmConfig>> locks the configuration, which
\* it can when the operation does not hold it, and reads it.
Observe ==
    /\ mirror.op # "none"
    /\ "config" \notin HeldBy(mirror.held)
    /\ mirror.observed = "-"
    /\ mirror' = [mirror EXCEPT !.observed = IF Agrees(mirror) THEN "agrees" ELSE "disagrees"]
    /\ UNCHANGED <<vmVars, vtVars, scenarioVars, opsVars, xfer, fdsend, cfgVars, zoneVars, resizeVars, numaVars, hobVars, lockVars, sendVars, sigVars, loadVars, queryVars, plugVars, domainVars>>

NextMirror ==
    \/ BeginMirror
    \/ MirrorStep
    \/ EndMirror
    \/ Observe

SpecMirror == InitMirror /\ [][NextMirror]_vars

----------------------------------------------------------------------------
(* One hotplug call, step by step: Vm::add_device ... Vm::add_vsock and    *)
(* Vm::remove_device with the calls they make to the device manager        *)

\* The identifiers of the devices of the configurations a call starts from.
PluggedIds == {"_dev0", "_dev1", "_dev2"}

\* The places of VmConfig that hold a hot-pluggable device.
Places == DeviceLists \cup {"vsock"}

\* One call made by add_* or remove_device, its outcome, and the
\* configuration it found.
Made(call, ok, c) == [call |-> call, ok |-> ok, config |-> c]

\* Vm::add_device, add_user_device, add_disk, add_fs, add_pmem, add_net,
\* add_vdpa and add_vsock notifying before the configuration is updated.
notify_then_add(c, list, id, added, notified) ==
    IF ~added
    THEN [config |-> c, ret |-> "DeviceManager",
          log |-> <<Made("device_manager.add", FALSE, c)>>]
    ELSE [config |-> IF notified THEN add(c, list, id) ELSE c,
          ret |-> IF notified THEN "Ok" ELSE "DeviceManager",
          log |-> <<Made("device_manager.add", TRUE, c),
                    Made("device_manager.notify_hotplug(PCI_DEVICES_CHANGED)", notified, c)>>
                  \o (IF notified THEN <<Made("config.add", TRUE, c)>> ELSE <<>>)]

\* Vm::add_device, add_user_device, add_disk, add_fs, add_pmem, add_net,
\* add_vdpa and add_vsock, by the place they add to: the device manager adds
\* the device (`?` returns its error), the configuration is updated under
\* its lock, the device manager notifies the guest (`?` again).
add_then_notify(c, list, id, added, notified) ==
    IF ~added
    THEN [config |-> c, ret |-> "DeviceManager",
          log |-> <<Made("device_manager.add", FALSE, c)>>]
    ELSE LET after == add(c, list, id)
         IN  [config |-> after,
              ret |-> IF notified THEN "Ok" ELSE "DeviceManager",
              log |-> <<Made("device_manager.add", TRUE, c),
                        Made("config.add", TRUE, c),
                        Made("device_manager.notify_hotplug(PCI_DEVICES_CHANGED)", notified, after)>>]

\* Vm::remove_device: the device manager removes the device (`?` returns its
\* error), the configuration is updated under its lock, the device manager
\* notifies the guest (`?` again).
remove_then_notify(c, id, removed, notified) ==
    IF ~removed
    THEN [config |-> c, ret |-> "DeviceManager",
          log |-> <<Made("device_manager.remove_device", FALSE, c)>>]
    ELSE LET after == remove_device(c, id)
         IN  [config |-> after,
              ret |-> IF notified THEN "Ok" ELSE "DeviceManager",
              log |-> <<Made("device_manager.remove_device", TRUE, c),
                        Made("config.retain", TRUE, c),
                        Made("device_manager.notify_hotplug(PCI_DEVICES_CHANGED)", notified, after)>>]

\* The sequences of distinct identifiers: the orders in which devices were
\* added.
PlugOrders ==
    {o \in UNION {[1..n -> PluggedIds] : n \in 0..Cardinality(PluggedIds)} :
        \A i, j \in DOMAIN o : i # j => o[i] # o[j]}

\* The configuration after the devices of order were added, each to its
\* place.
RECURSIVE Configured(_, _)
Configured(order, place) ==
    IF order = <<>>
    THEN NoDevices
    ELSE LET n == Len(order)
         IN  add(Configured(SubSeq(order, 1, n - 1), place), place[order[n]], order[n])

\* The identifiers of the configuration c.
Plugged(c) ==
    {id \in PluggedIds : \E l \in Places : \E i \in DOMAIN c[l].items : c[l].items[i] = id}

\* A call starts from a configuration that adds have built, where one list
\* at most was emptied by an earlier removal.
InitPlug ==
    /\ InitVm
    /\ ~tdx /\ ~on_tty /\ ~stop_on_boot
    /\ vt_self = "Created"
    /\ vt_results = <<>>
    /\ pc = "none"
    /\ snapshot = NoSnapshot
    /\ InitAside
    /\ domain = NoDomain
    /\ zones = None
    /\ resources = BootResources
    /\ resizing = NoResizing
    /\ numa = NoNuma
    /\ hob = NoHob
    /\ locks = NoLocks
    /\ transport = NoSend
    /\ dispatcher = NoDispatcher
    /\ loading = NoLoading
    /\ queries = NoQueries
    /\ mirror = NoMirror
    /\ \E order \in PlugOrders, place \in [PluggedIds -> Places], emptied \in DeviceLists \cup {"-"} :
         /\ \A i, j \in DOMAIN order :
              (i # j /\ place[order[i]] = "vsock") => place[order[j]] # "vsock"
         /\ LET c == Configured(order, place)
                d == IF emptied \in DeviceLists /\ ~c[emptied].some
                     THEN [c EXCEPT ![emptied] = Some(<<>>)]
                     ELSE c
            IN  plug = [NoPlug EXCEPT !.prior = d, !.config = d]

\* One of the add_* operations is called for a device the configuration
\* does not have; the device manager holds one vsock device at most.
Plug ==
    /\ plug.op = "-"
    /\ \E list \in Places, id \in PluggedIds \ Plugged(plug.config),
          added \in BOOLEAN, notified \in BOOLEAN :
         /\ (added /\ list = "vsock") => ~plug.config["vsock"].some
         /\ LET r == add_then_notify(plug.config, list, id, added, notified)
            IN  plug' = [op |-> "add", list |-> list, id |-> id, prior |-> plug.config,
                         config |-> r.config, ret |-> r.ret, log |-> r.log]
    /\ UNCHANGED <<vmVars, vtVars, scenarioVars, opsVars, xfer, fdsend, cfgVars, zoneVars, resizeVars, numaVars, hobVars, lockVars, sendVars, sigVars, loadVars, queryVars, mirrorVars, domainVars>>

\* remove_device is called; the device manager removes a device it has.
Unplug ==
    /\ plug.op = "-"
    /\ \E id \in PluggedIds, removed \in BOOLEAN, notified \in BOOLEAN :
         /\ removed => id \in Plugged(plug.config)
         /\ LET r == remove_then_notify(plug.config, id, removed, notified)
            IN  plug' = [op |-> "remove", list |-> "-", id |-> id, prior |-> plug.config,
                         config |-> r.config, ret |-> r.ret, log |-> r.log]
    /\ UNCHANGED <<vmVars, vtVars, scenarioVars, opsVars, xfer, fdsend, cfgVars, zoneVars, resizeVars, numaVars, hobVars, lockVars, sendVars, sigVars, loadVars, queryVars, mirrorVars, domainVars>>

NextPlug ==
    \/ Plug
    \/ Unplug

SpecPlug == InitPlug /\ [][NextPlug]_vars

----------------------------------------------------------------------------
(* boot of a trusted domain, call by call                                  *)
(*                                                                         *)
(* The steps are those of boot(); init_tdx_memory is unfolded into its     *)
(* loop over the sections.  The state lock is not poisoned and the Vm is   *)
(* Created, so that the steps that are no calls go through.                *)

\* TdvfSectionType: the hand-off block and another type, and the attributes
\* of a section: 1 is TDVF_SECTION_ATTRIBUTES_EXTENDMR.
TdvfSections == [type : {"TdHob", "TempMem"}, attributes : {0, 1, 3}]

\* The lists of sections that extract_tdvf_sections returns.
TdvfTables == UNION {[1..n -> TdvfSections] : n \in 0..MaxSections}

\* One entry of the log of boot: the call, whether it went through and, for
\* tdx_init_memory_region, the section and the extend-measurement flag.
Entry(call, ok, section, extend) ==
    [call |-> call, ok |-> ok, section |-> section, extend |-> extend]

\* tdx_init_memory_region called with the flag set for every section whose
\* attributes have the lowest bit set.
tdx_init_memory_region_by_bit(sections, i, ok) ==
    Entry("tdx_init_memory_region", ok, i, sections[i].attributes % 2 = 1)

\* The call of tdx_init_memory_region that init_tdx_memory makes for the
\* i-th section: the flag is `section.attributes == 1`.
tdx_init_memory_region(sections, i, ok) ==
    Entry("tdx_init_memory_region", ok, i, sections[i].attributes = 1)

\* populate_tdx_sections ends with TdHob::start(hob_offset.unwrap()): it
\* returns Some(hob_offset) or, without a TdHob section, panics.
HobOffset(sections) ==
    IF \E i \in DOMAIN sections : sections[i].type = "TdHob"
    THEN Some(<<"hob_offset">>)
    ELSE None

\* The steps of boot() on the Vm as it is.
DomainSteps == boot_steps(Self, TRUE)

\* The step boot() is at, or "end" after the last.
DomainStep ==
    IF domain.at > Len(DomainSteps)
    THEN Step("end", "end", "-", <<>>)
    ELSE DomainSteps[domain.at]

\* A trusted domain, just created, is about to boot.
InitDomain ==
    /\ InitVm
    /\ tdx
    /\ vt_self = "Created"
    /\ vt_results = <<>>
    /\ pc = "none"
    /\ snapshot = NoSnapshot
    /\ InitAside
    /\ zones = None
    /\ resources = BootResources
    /\ resizing = NoResizing
    /\ numa = NoNuma
    /\ hob = NoHob
    /\ locks = NoLocks
    /\ transport = NoSend
    /\ dispatcher = NoDispatcher
    /\ loading = NoLoading
    /\ queries = NoQueries
    /\ mirror = NoMirror
    /\ plug = NoPlug
    /\ \E sections \in TdvfTables :
         domain = [NoDomain EXCEPT !.sections = sections, !.at = 1]

\* A step of boot() that is no fallible call goes through.
DomainQuiet ==
    /\ domain.ret = "-"
    /\ DomainStep.k \notin {"call", "end"}
    /\ domain' = [domain EXCEPT !.at = @ + 1]
    /\ UNCHANGED <<vmVars, vtVars, scenarioVars, opsVars, xfer, fdsend, cfgVars, zoneVars, resizeVars, numaVars, hobVars, lockVars, sendVars, sigVars, loadVars, queryVars, mirrorVars, plugVars>>

\* A fallible call of boot() other than init_tdx_memory returns Ok.
\* populate_tdx_sections does only when there is a TdHob section.
DomainCall ==
    /\ domain.ret = "-"
    /\ DomainStep.k = "call"
    /\ DomainStep.s # "init_tdx_memory"
    /\ DomainStep.s = "populate_tdx_sections" => HobOffset(domain.sections).some
    /\ domain' = [domain EXCEPT !.at = @ + 1,
                                !.log = Append(@, Entry(DomainStep.s, TRUE, 0, FALSE))]
    /\ UNCHANGED <<vmVars, vtVars, scenarioVars, opsVars, xfer, fdsend, cfgVars, zoneVars, resizeVars, numaVars, hobVars, lockVars, sendVars, sigVars, loadVars, queryVars, mirrorVars, plugVars>>

\* A fallible call of boot() other than init_tdx_memory returns Err, which
\* `?` returns, or populate_tdx_sections panics for want of a TdHob section.
DomainFail ==
    /\ domain.ret = "-"
    /\ DomainStep.k = "call"
    /\ DomainStep.s # "init_tdx_memory"
    /\ \E ret \in {"Err", "panic"} :
         /\ ret = "panic" =>
              /\ DomainStep.s = "populate_tdx_sections"
              /\ ~HobOffset(domain.sections).some
         /\ domain' = [domain EXCEPT !.ret = ret,
                                     !.log = Append(@, Entry(DomainStep.s, FALSE, 0, FALSE))]
    /\ UNCHANGED <<vmVars, vtVars, scenarioVars, opsVars, xfer, fdsend, cfgVars, zoneVars, resizeVars, numaVars, hobVars, lockVars, sendVars, sigVars, loadVars, queryVars, mirrorVars, plugVars>>

\* init_tdx_memory: `for section in sections` calls tdx_init_memory_region
\* for the next section, and `?` returns its error.
RegisterSection ==
    /\ domain.ret = "-"
    /\ DomainStep.s = "init_tdx_memory"
    /\ domain.next <= Len(domain.sections)
    /\ \E ok \in BOOLEAN :
         domain' = [domain EXCEPT
                      !.next = IF ok THEN @ + 1 ELSE @,
                      !.ret = IF ok THEN @ ELSE "Err",
                      !.log = Append(@, tdx_init_memory_region(domain.sections, domain.next, ok))]
    /\ UNCHANGED <<vmVars, vtVars, scenarioVars, opsVars, xfer, fdsend, cfgVars, zoneVars, resizeVars, numaVars, hobVars, lockVars, sendVars, sigVars, loadVars, queryVars, mirrorVars, plugVars>>

\* init_tdx_memory returns Ok(()) after the last section.
Registered ==
    /\ domain.ret = "-"
    /\ DomainStep.s = "init_tdx_memory"
    /\ domain.next > Len(domain.sections)
    /\ domain' = [domain EXCEPT !.at = @ + 1]
    /\ UNCHANGED <<vmVars, vtVars, scenarioVars, opsVars, xfer, fdsend, cfgVars, zoneVars, resizeVars, numaVars, hobVars, lockVars, sendVars, sigVars, loadVars, queryVars, mirrorVars, plugVars>>

\* boot() returns Ok(()).
Booted ==
    /\ domain.ret = "-"
    /\ DomainStep.k = "end"
    /\ domain' = [domain EXCEPT !.ret = "Ok"]
    /\ UNCHANGED <<vmVars, vtVars, scenarioVars, opsVars, xfer, fdsend, cfgVars, zoneVars, resizeVars, numaVars, hobVars, lockVars, sendVars, sigVars, loadVars, queryVars, mirrorVars, plugVars>>

NextDomain ==
    \/ DomainQuiet
    \/ DomainCall
    \/ DomainFail
    \/ RegisterSection
    \/ Registered
    \/ Booted

SpecDomain == InitDomain /\ [][NextDomain]_vars

----------------------------------------------------------------------------
(* Reading the log of the last operation *)

InLog(e) == \E i \in DOMAIN log : log[i] = e

\* The place of the first e in the log.
Pos(e) == CHOOSE i \in DOMAIN log : log[i] = e /\ \A j \in 1..(i - 1) : log[j] # e

\* e was called, and before f.
Before(e, f) == InLog(e) /\ InLog(f) /\ Pos(e) < Pos(f)

NoSubManagerCall == \A i \in DOMAIN log : log[i] \notin SubManagerCalls

----------------------------------------------------------------------------
(* The state machine of VmState *)

\* The edges the documentation of the state machine marks legal.
DocumentedEdges ==
    {<<"Created", "Running">>, <<"Created", "Paused">>, <<"Created", "BreakPoint">>,
     <<"Running", "Shutdown">>, <<"Running", "Paused">>, <<"Running", "BreakPoint">>,
     <<"Shutdown", "Running">>,
     <<"Paused", "Running">>, <<"Paused", "Shutdown">>,
     <<"BreakPoint", "Created">>, <<"BreakPoint", "Running">>}

\* C1: for every pair (s, t) of states, valid_transition(s, t) is Ok exactly
\* when s -> t is a documented edge, and otherwise it is the error
\* InvalidStateTransition carrying exactly (s, t).
C1_TransitionTable ==
    \A t \in DOMAIN vt_results :
        LET r == vt_results[t] IN
        /\ r.ok <=> <<vt_self, t>> \in DocumentedEdges
        /\ ~r.ok => /\ r.err = "InvalidStateTransition"
                    /\ r.from = vt_self
                    /\ r.to = t

\* All five targets were tried from Created, and some were refused.
C1_Witness ==
    /\ vt_self = "Created"
    /\ DOMAIN vt_results = VmState
    /\ ~vt_results["Shutdown"].ok
    /\ vt_results["Running"].ok

\* C2: every store to Vm.state that changes it, by any operation, successful
\* or failing, goes along an edge that valid_transition accepts.
C2_OnlyLegalWrites ==
    \A i \in DOMAIN writes :
        writes[i][1] # writes[i][2] => valid_transition(writes[i][1], writes[i][2]).ok

----------------------------------------------------------------------------
(* Rejected and accepted calls *)

\* The answer of an operation that valid_transition stopped.
Refused(from, to, wrap) ==
    [InvalidStateTransition(from, to) EXCEPT !.wrap = wrap]

ManagerResumed == InLog("cpu_manager.resume") \/ InLog("device_manager.resume")

\* C3, as the documentation states it: resume() on a VM in state Created
\* returns InvalidStateTransition(Created, Running) wrapped in a Resume
\* error, leaves the state Created and resumes no manager.
C3_ResumeFromCreatedRefused ==
    [][(state = "Created" /\ ~poisoned /\ op' = "resume")
        => /\ res' = Refused("Created", "Running", <<"MigratableError::Resume">>)
           /\ state' = "Created"
           /\ ~ManagerResumed']_vars

\* C3, as the code has it: the transition check of resume() refuses exactly
\* the state Running, with InvalidStateTransition(Running, Running) wrapped
\* in a Resume error, the state unchanged and no manager resumed.  From
\* Created (and Shutdown, Paused, BreakPoint) the check passes: the CPU
\* manager is resumed, and a resume() that succeeds commits Running.
C3_ResumeRefusedOnlyFromRunning ==
    [][(~poisoned /\ op' = "resume")
        => /\ state = "Running"
                => /\ res' = Refused("Running", "Running", <<"MigratableError::Resume">>)
                   /\ state' = "Running"
                   /\ ~ManagerResumed'
           /\ state # "Running"
                => /\ res'.err # "InvalidStateTransition"
                   /\ InLog("cpu_manager.resume")'
                   /\ res'.ok => state' = "Running"]_vars

\* resume() was refused on a running VM.
C3_Witness ==
    /\ op = "resume"
    /\ res = Refused("Running", "Running", <<"MigratableError::Resume">>)
    /\ state = "Running"

\* C4, as the documentation states it: restore() passes its transition check
\* from Created and from Shutdown, and from Running, Paused and BreakPoint it
\* fails before any sub-manager is restored, the state unchanged.
C4_RestoreFromCreatedOrShutdown ==
    [][(~poisoned /\ op' = "restore")
        => /\ state \in {"Created", "Shutdown"}
                => res'.err # "InvalidStateTransition"
           /\ state \in {"Running", "Paused", "BreakPoint"}
                => /\ ~res'.ok
                   /\ NoSubManagerCall'
                   /\ state' = state]_vars

\* C4, as the code has it: restore() checks the transition to Paused, which
\* passes from Created and from Running; from Shutdown, Paused and BreakPoint
\* restore() fails with InvalidStateTransition(state, Paused) wrapped in a
\* Restore error before any sub-manager is restored, the state unchanged.
C4_RestoreFromCreatedOrRunning ==
    [][(~poisoned /\ op' = "restore")
        => /\ state \in {"Created", "Running"}
                => /\ res'.err # "InvalidStateTransition"
                   /\ res'.ok => state' = "Paused"
           /\ state \in {"Shutdown", "Paused", "BreakPoint"}
                => /\ res' = Refused(state, "Paused", <<"MigratableError::Restore">>)
                   /\ NoSubManagerCall'
                   /\ log' = <<>>
                   /\ state' = state]_vars

\* restore() was refused on a VM that was shut down.
C4_Witness ==
    /\ op = "restore"
    /\ res = Refused("Shutdown", "Paused", <<"MigratableError::Restore">>)
    /\ state = "Shutdown"

SnapshotAsked ==
    \/ InLog("cpu_manager.snapshot")
    \/ InLog("memory_manager.snapshot")
    \/ InLog("device_manager.snapshot")

----------------------------------------------------------------------------
(* Failing calls *)

\* C6: a pause() or resume() that does not succeed, whichever step stops
\* it, stores nothing to the state: the state is the one before the call.
C6_PauseResumeErrorKeepsState ==
    [][(op' \in {"pause", "resume"} /\ ~res'.ok)
        => /\ state' = state
           /\ writes' = <<>>]_vars

\* pause() failed at its last step before the commit, the pause of the
\* device manager, after the CPU manager was paused.
C6_Witness ==
    /\ op = "pause"
    /\ res.err = "Failed"
    /\ res.at = "device_manager.pause"
    /\ InLog("cpu_manager.pause")
    /\ state = "Running"

\* C7: a boot() called in state Created that does not succeed, whichever
\* step stops it, stores nothing to the state: the state is still Created.
C7_BootErrorKeepsCreated ==
    [][(op' = "boot" /\ state = "Created" /\ ~res'.ok)
        => /\ state' = "Created"
           /\ writes' = <<>>]_vars

\* boot() of a created VM failed at its last step, the start of the vCPUs.
C7_Witness ==
    /\ op = "boot"
    /\ res.err = "Failed"
    /\ res.at = "cpu_manager.start_boot_vcpus"
    /\ res.wrap = <<"CpuManager">>
    /\ state = "Created"

----------------------------------------------------------------------------
(* The order of the steps *)

\* C8: a successful pause() is, in this order: capture of the clock,
\* activation of the pending virtio devices, pause of the CPU manager, pause
\* of the device manager, commit of Paused.  In no pause(), called directly
\* or by debug_pause(), is Paused stored before both managers were paused.
C8_PauseOrder ==
    /\ (op = "pause" /\ res.ok)
                => /\ log = <<"get_clock", "device_manager.activate_virtio_devices",
                              "cpu_manager.pause", "device_manager.pause", "commit">>
                   /\ state = "Paused"
                   /\ vcpus_paused /\ dm_paused
    /\ (op \in {"pause", "debug_pause"} /\ \E i \in DOMAIN writes : writes[i][2] = "Paused")
                => /\ Before("device_manager.activate_virtio_devices", "cpu_manager.pause")
                   /\ Before("cpu_manager.pause", "device_manager.pause")
                   /\ Before("device_manager.pause", "commit")

\* A running VM was paused.
C8_Witness ==
    /\ op = "pause"
    /\ res.ok
    /\ writes = <<<<"Running", "Paused">>>>

\* Every entry of the log after the first e is one of es.
OnlyAfter(e, es) == \A i \in DOMAIN log : i > Pos(e) => log[i] \in es

\* What C9 says of the kernel load, the TDX sections and the start of the
\* vCPUs in a boot() that reached create_boot_vcpus.
BootOrderAfterSetup ==
    /\ ~load_kernel_handle
    /\ InLog("load_kernel_handle.take")
            => Before("kernel_load.join", "cpu_manager.create_boot_vcpus")
    /\ InLog("populate_tdx_sections")
            => Before("cpu_manager.create_boot_vcpus", "populate_tdx_sections")
    /\ InLog("cpu_manager.start_boot_vcpus")
            => /\ Before("cpu_manager.create_boot_vcpus", "cpu_manager.start_boot_vcpus")
               /\ OnlyAfter("cpu_manager.start_boot_vcpus", {"commit"})

BootOnlySteps ==
    {"create_acpi_tables", "Signals::new", "signals = Some", "exit_evt.try_clone",
     "get_seccomp_filter", "spawn signal_handler", "set_raw_mode",
     "load_kernel_handle.take", "kernel_load.join", "tdx_init",
     "cpu_manager.create_boot_vcpus", "extract_tdvf_sections",
     "populate_tdx_sections", "configure_system", "cpu_manager.initialize_tdx",
     "init_tdx_memory", "tdx_finalize", "cpu_manager.start_boot_vcpus"}

\* The step went as the run r says, up to the answer.
WentAs(r) ==
    /\ state' = r.v.state
    /\ poisoned' = r.v.poisoned
    /\ signals' = r.v.signals
    /\ threads' = r.v.threads
    /\ load_kernel_handle' = r.v.load_kernel_handle
    /\ saved_clock' = r.v.saved_clock
    /\ vcpus_paused' = r.v.vcpus_paused
    /\ dm_paused' = r.v.dm_paused
    /\ log' = r.v.log
    /\ writes' = r.v.writes

\* C10: a boot() that reads the state Paused does what some run of resume()
\* from the same state does, step for step, and answers what it answers, an
\* error wrapped in Error::Resume; if it succeeds the state is Running; and
\* it executes no step of boot.
C10_BootWhilePausedIsResume ==
    [][(state = "Paused" /\ ~poisoned /\ op' = "boot")
        => /\ \E r \in Runs(resume_steps(Self), 1, Self) :
                /\ WentAs(r)
                /\ res' = IF r.res.ok \/ r.res.err = "Panic"
                          THEN r.res
                          ELSE [r.res EXCEPT !.wrap = <<"Error::Resume">> \o @]
           /\ res'.ok => state' = "Running"
           /\ \A i \in DOMAIN log' : log'[i] \notin BootOnlySteps]_vars

\* boot() resumed a paused VM.
C10_Witness ==
    /\ op = "boot"
    /\ res.ok
    /\ writes = <<<<"Paused", "Running">>>>
    /\ log = <<"cpu_manager.resume", "set_clock", "device_manager.resume", "commit">>

----------------------------------------------------------------------------
(* boot() and shutdown() *)

\* C11: a boot() that reads a state other than Paused aims at BreakPoint if
\* stop_on_boot is set and at Running otherwise.  If it succeeds it has
\* committed that state, and it has started the boot vCPUs exactly when
\* that state is Running.  If the state does not allow the transition
\* (Running -> Running; Shutdown or BreakPoint -> BreakPoint) it fails with
\* InvalidStateTransition before any step, the state unchanged.
C11_BootTarget ==
    [][(op' = "boot" /\ state # "Paused" /\ ~poisoned)
        => LET target == IF stop_on_boot THEN "BreakPoint" ELSE "Running"
               illegal == \/ target = "Running" /\ state = "Running"
                          \/ target = "BreakPoint" /\ state \in {"Shutdown", "BreakPoint"}
           IN /\ res'.ok
                    => /\ state' = target
                       /\ writes' = <<<<state, target>>>>
                       /\ InLog("cpu_manager.start_boot_vcpus")' <=> state' = "Running"
              /\ illegal
                    => /\ res' = Refused(state, target, <<>>)
                       /\ log' = <<>>
                       /\ state' = state
              /\ ~illegal => res'.err # "InvalidStateTransition"]_vars

\* A VM that stops on boot was booted: BreakPoint, and no vCPU started.
C11_Witness ==
    /\ op = "boot"
    /\ res.ok
    /\ stop_on_boot
    /\ state = "BreakPoint"
    /\ InLog("cpu_manager.create_boot_vcpus")
    /\ ~InLog("cpu_manager.start_boot_vcpus")

\* C12: a successful shutdown() found its transition legal and then did, in
\* this order: terminal to canonical mode if on a TTY, close of the handle
\* of the signal dispatcher if there is one, resume of the device manager,
\* shutdown of the CPU manager, join of the threads of Vm.threads if there
\* are any, commit of Shutdown.  Afterwards the state is Shutdown, the
\* handle is absent and Vm.threads is empty.
C12_ShutdownOrder ==
    [][(op' = "shutdown" /\ res'.ok)
        => /\ state \in {"Running", "Paused"}
           /\ log' = (IF on_tty THEN <<"set_canon_mode">> ELSE <<>>)
                       \o (IF signals THEN <<"signals.take.close">> ELSE <<>>)
                       \o <<"device_manager.resume", "cpu_manager.shutdown">>
                       \o (IF threads > 0 THEN <<"threads.drain.join">> ELSE <<>>)
                       \o <<"commit">>
           /\ state' = "Shutdown"
           /\ ~signals'
           /\ threads' = 0]_vars

\* A VM on a TTY with a signal dispatcher and its thread was shut down.
C12_Witness ==
    /\ op = "shutdown"
    /\ res.ok
    /\ log = <<"set_canon_mode", "signals.take.close", "device_manager.resume",
               "cpu_manager.shutdown", "threads.drain.join", "commit">>
    /\ state = "Shutdown"

----------------------------------------------------------------------------
(* The pause/snapshot/restore scenario *)

\* C13: on a VM without TDX that does not stop on boot, the scenario boot,
\* pause, snapshot, new VM from the Snapshot, restore, resume is stopped by
\* nothing but a failure of a collaborator: no call is refused by a check of
\* Vm.  boot leaves Running, pause leaves Paused, snapshot leaves a Snapshot
\* with all that restore() asks for, the new VM is Created, restore leaves
\* it Paused and resume leaves it Running.
C13_ScenarioCompletes ==
    (~tdx /\ ~stop_on_boot)
        => /\ pc = "failed" => res.err \in {"Failed", "Panic"}
           /\ pc = "pause" => state = "Running"
           /\ pc = "snapshot" => state = "Paused"
           /\ pc = "new_from_snapshot"
                => /\ state = "Paused"
                   /\ snapshot.taken
                   /\ snapshot.snapshots = SnapshotIds
           /\ pc = "restore" => state = "Created"
           /\ pc = "resume" => (state = "Paused" /\ op = "restore" /\ res.ok)
           /\ pc = "done" => (state = "Running" /\ op = "resume" /\ res.ok)

\* The scenario ran to its end.
C13_Witness ==
    /\ ~tdx
    /\ ~stop_on_boot
    /\ pc = "done"
    /\ snapshot.taken
    /\ state = "Running"
    /\ writes = <<<<"Paused", "Running">>>>

----------------------------------------------------------------------------
(* The callbacks of VmOpsHandler *)

\* C14: a callback that got MissingAddressRange from the bus warns and
\* returns success, and a callback that got any other error from the bus
\* returns an error.
C14_OtherBusErrorsPropagate ==
    vcpu.pc = "returned"
        => /\ vcpu.bus_res = "Err(MissingAddressRange)"
                => (vcpu.warned /\ vcpu.ret = "Ok(())")
           /\ vcpu.bus_res = "Err(other)" => vcpu.ret # "Ok(())"

\* C15: a mmio_write or pio_write whose bus write returned a barrier has
\* returned only if the other participant has arrived at the barrier; and a
\* callback waits only if it is a write whose bus write returned a barrier.
C15_BarrierHoldsWriter ==
    /\ (vcpu.pc = "returned" /\ vcpu.bus_res = "Ok(Some(barrier))")
            => barrier = {"device", "vcpu"}
    /\ vcpu.pc = "barrier.wait"
            => /\ vcpu.call \in {"mmio_write", "pio_write"}
               /\ vcpu.bus_res = "Ok(Some(barrier))"
    /\ (vcpu.pc = "returned" /\ vcpu.bus_res # "Ok(Some(barrier))")
            => barrier = {}

\* A write returned from a barrier at which the device had arrived.
C15_Witness ==
    /\ vcpu.pc = "returned"
    /\ vcpu.call = "pio_write"
    /\ vcpu.bus_res = "Ok(Some(barrier))"
    /\ "device" \in barrier

\* C16: pio_read and pio_write access exactly one target: for a port of the
\* PCI configuration range the PCI config device, at base PCI_CONFIG_IO_PORT
\* and offset port - PCI_CONFIG_IO_PORT, without a call of the PIO bus and
\* without a wait; for every other port the PIO bus, at that port.
C16_PioDispatch ==
    (vcpu.pc # "guest" /\ vcpu.call \in {"pio_read", "pio_write"})
        => /\ Len(vcpu.accessed) = 1
           /\ IF vcpu.addr \in PCI_CONFIG_IO_PORT..(PCI_CONFIG_IO_PORT + PCI_CONFIG_IO_PORT_SIZE - 1)
              THEN /\ vcpu.accessed[1] =
                        <<"pci_config_io", PCI_CONFIG_IO_PORT, vcpu.addr - PCI_CONFIG_IO_PORT>>
                   /\ vcpu.bus_res = "-"
                   /\ vcpu.pc = "returned"
                   /\ barrier = {}
              ELSE vcpu.accessed[1] = <<"io_bus", vcpu.addr>>

\* A write to the last port of the PCI configuration range.
C16_Witness ==
    /\ vcpu.pc = "returned"
    /\ vcpu.call = "pio_write"
    /\ vcpu.addr = PCI_CONFIG_IO_PORT + PCI_CONFIG_IO_PORT_SIZE - 1
    /\ vcpu.accessed = <<<<"pci_config_io", PCI_CONFIG_IO_PORT, PCI_CONFIG_IO_PORT_SIZE - 1>>>>

----------------------------------------------------------------------------
(* The transfer of memory regions *)

\* The addresses of all bytes of the first k ranges, in range order.
RECURSIVE BytesOf(_, _)
BytesOf(ranges, k) ==
    IF k = 0 THEN <<>>
    ELSE BytesOf(ranges, k - 1) \o Transferred(ranges[k].gpa, ranges[k].length)

\* C17: in send_memory_regions and receive_memory_regions every call of the
\* primitive is made at gpa + offset for length - offset bytes; offset never
\* exceeds length; the bytes transferred so far are all bytes of the ranges
\* before the current one and the first offset bytes of the current one,
\* each once and in order; and when Ok(()) is returned they are all bytes
\* of all ranges.  Only an error of the primitive ends a range early.
C17_ResumableTransfer ==
    /\ xfer.last.i > 0
            => LET range == xfer.ranges[xfer.last.i] IN
               /\ xfer.last.at = range.gpa + xfer.last.offset
               /\ xfer.last.count = range.length - xfer.last.offset
               /\ xfer.last.offset + xfer.last.n <= range.length
    /\ xfer.pc = "loop"
            => /\ xfer.i \in 1..Len(xfer.ranges)
               /\ xfer.offset <= xfer.ranges[xfer.i].length
               /\ xfer.moved = BytesOf(xfer.ranges, xfer.i - 1)
                                 \o Transferred(xfer.ranges[xfer.i].gpa, xfer.offset)
    /\ (xfer.pc = "returned" /\ xfer.ret = "Ok(())")
            => xfer.moved = BytesOf(xfer.ranges, Len(xfer.ranges))
    /\ (xfer.pc = "returned" /\ xfer.ret # "Ok(())")
            => /\ xfer.ret = IF xfer.dir = "send" THEN "Err(MigrateSend)"
                                                 ELSE "Err(MigrateReceive)"
               /\ xfer.moved = BytesOf(xfer.ranges, xfer.i - 1)
                                 \o Transferred(xfer.ranges[xfer.i].gpa, xfer.offset)

\* Two ranges were received, the second of the greatest length and finished
\* by a call that resumed it after a partial count.
C17_Witness ==
    /\ xfer.pc = "returned"
    /\ xfer.ret = "Ok(())"
    /\ xfer.dir = "receive"
    /\ Len(xfer.ranges) = 2
    /\ xfer.ranges[2].length = MaxLength
    /\ xfer.last.i = 2
    /\ xfer.last.offset > 0
    /\ xfer.last.n > 0

----------------------------------------------------------------------------
(* The transfer of the memory fds *)

\* The places of the wire where the response of the peer was read as status.
Responses(status) ==
    {j \in DOMAIN fdsend.wire :
        /\ fdsend.wire[j].call = "Response::read_from"
        /\ fdsend.wire[j].arg = status}

\* The places of the wire where the fd of a slot was sent.
FdsSent == {j \in DOMAIN fdsend.wire : fdsend.wire[j].call = "send_with_fd"}

----------------------------------------------------------------------------
(* The configuration after hotplug *)

\* C19: after a successful add of a device and, right after it, a successful
\* remove_device of the same device, the configuration is equal to the one
\* before the add, also when the list of the device was None before.
C19_AddRemoveRestoresConfig ==
    (hotplug.op = "remove" /\ hotplug.ok /\ hotplug.after_add)
        => config = hotplug.before

\* C20: resize_zone only grows a zone.  Asked for less than the boot size of
\* the zone, or for a zone that does not exist, it fails with ResizeZone,
\* the memory manager is not called and the configuration is unchanged;
\* asked for the boot size or more, the memory manager is called, and when
\* it accepts the hotplugged_size of the zone becomes the size asked minus
\* the boot size, and when it fails the configuration is unchanged.
C20_ResizeZoneOnlyIncrements ==
    resized.id # "-" =>
        LET b == resized.before
            i == FirstZone(b.items, resized.id)
        IN  IF i = 0 \/ resized.desired_memory < b.items[i].size
            THEN /\ resized.ret = "Err(ResizeZone)"
                 /\ resized.memory_manager = "-"
                 /\ zones = b
            ELSE /\ resized.memory_manager # "-"
                 /\ resized.memory_manager = "Ok" =>
                        /\ resized.ret = "Ok"
                        /\ zones.items[i].hotplugged_size =
                               Some(<<resized.desired_memory - b.items[i].size>>)
                        /\ zones.items[i].size = b.items[i].size
                        /\ \A j \in DOMAIN b.items : j # i => zones.items[j] = b.items[j]
                 /\ resized.memory_manager = "Err" =>
                        /\ resized.ret = "Err(MemoryManager)"
                        /\ zones = b

\* A zone was grown, and later the memory manager refused to grow it further.
C20_Witness ==
    /\ resized.memory_manager = "Err"
    /\ \E i \in DOMAIN zones.items :
         /\ zones.items[i].id = resized.id
         /\ zones.items[i].hotplugged_size.some
         /\ zones.items[i].hotplugged_size.items[1] > 0

----------------------------------------------------------------------------
(* The configuration after resize *)

\* The entry name is in the log of the last resize, and a is before b in it.
Resizing(name) == \E i \in DOMAIN resizing.log : resizing.log[i] = name

ResizingBefore(a, b) ==
    \E i, j \in DOMAIN resizing.log :
        /\ i < j
        /\ resizing.log[i] = a
        /\ resizing.log[j] = b

\* A memory resize to m under the hotplug method has returned Ok(()).
MemoryResized(method) ==
    /\ resizing.ret = "Ok(())"
    /\ resizing.desired_memory.some
    /\ resizing.before.hotplug_method = method

\* C21: under ACPI hotplug a successful resize of the memory to m sets
\* memory.size to m; when the memory manager reports a new region the device
\* manager gets update_memory and then the MEMORY_DEVICES_CHANGED
\* notification, and without a new region no memory notification is sent.
C21_AcpiMemoryResize ==
    MemoryResized("Acpi") =>
        /\ resources.size = resizing.desired_memory.items[1]
        /\ resources.hotplugged_size = resizing.before.hotplugged_size
        /\ Resizing("memory_manager.resize: Ok(Some(region))") =>
               ResizingBefore("device_manager.update_memory",
                              "device_manager.notify_hotplug(MEMORY_DEVICES_CHANGED)")
        /\ Resizing("memory_manager.resize: Ok(None)") =>
               ~Resizing("device_manager.notify_hotplug(MEMORY_DEVICES_CHANGED)")

\* resize(None, Some(m), None) under ACPI with a new region, m above the size
\* the Vm had.
C21_Witness ==
    /\ MemoryResized("Acpi")
    /\ ~resizing.desired_vcpus.some
    /\ ~resizing.desired_balloon.some
    /\ resizing.desired_memory.items[1] > resizing.before.size
    /\ Resizing("device_manager.notify_hotplug(MEMORY_DEVICES_CHANGED)")

\* C22: under virtio-mem hotplug a successful resize of the memory to m
\* leaves memory.size as it was, sets memory.hotplugged_size to m - size when
\* m > size and to None when m <= size, and sends no memory notification.
C22_VirtioMemResize ==
    MemoryResized("VirtioMem") =>
        LET m == resizing.desired_memory.items[1] IN
        /\ resources.size = resizing.before.size
        /\ resources.hotplugged_size =
              IF m > resources.size THEN Some(<<m - resources.size>>) ELSE None
        /\ ~Resizing("device_manager.notify_hotplug(MEMORY_DEVICES_CHANGED)")

\* Memory hotplugged by virtio-mem was given back: a resize to the boot size
\* or less, with a new region reported, after a resize above it.
C22_Witness ==
    /\ MemoryResized("VirtioMem")
    /\ resizing.before.hotplugged_size.some
    /\ ~resources.hotplugged_size.some
    /\ Resizing("device_manager.update_memory")

----------------------------------------------------------------------------
(* The NUMA nodes *)

\* The entries of the NUMA configuration given.
NumaEntries == numa.configs.items

\* Two entries share a guest_numa_id.
SharedNumaId ==
    \E i, j \in DOMAIN NumaEntries :
        i # j /\ NumaEntries[i].guest_numa_id = NumaEntries[j].guest_numa_id

\* An entry names a memory zone the memory manager does not know.
UnknownZone ==
    \E i \in DOMAIN NumaEntries : \E z \in DOMAIN NumaEntries[i].memory_zones.items :
        NumaEntries[i].memory_zones.items[z] \notin MmZones

\* A distance destination is the guest_numa_id of no entry.
UnknownDestination ==
    \E i \in DOMAIN NumaEntries : \E d \in DOMAIN NumaEntries[i].distances.items :
        \A k \in DOMAIN NumaEntries :
            NumaEntries[k].guest_numa_id # NumaEntries[i].distances.items[d].destination

\* An entry lists the same destination twice.
RepeatedDestination ==
    \E i \in DOMAIN NumaEntries : \E d, e \in DOMAIN NumaEntries[i].distances.items :
        /\ d # e
        /\ NumaEntries[i].distances.items[d].destination =
               NumaEntries[i].distances.items[e].destination

\* C23: create_numa_nodes fails with InvalidNumaConfig when two entries share
\* a guest_numa_id, when an entry names an unknown memory zone, when a
\* distance destination is no entry of the configuration, or when an entry
\* lists a destination twice; when it succeeds there is one node per entry,
\* under distinct ids, and every distance stored leads to a declared node.
C23_NumaValidation ==
    numa.ret # "-" =>
        /\ (SharedNumaId \/ UnknownZone \/ UnknownDestination \/ RepeatedDestination)
               => numa.ret = "Err(InvalidNumaConfig)"
        /\ numa.ret = "Ok" =>
               /\ Cardinality(DOMAIN numa.numa_nodes) = Len(NumaEntries)
               /\ DOMAIN numa.numa_nodes =
                      {NumaEntries[i].guest_numa_id : i \in DOMAIN NumaEntries}
               /\ \A id \in DOMAIN numa.numa_nodes :
                      DOMAIN numa.numa_nodes[id].distances \subseteq DOMAIN numa.numa_nodes

\* Two nodes, each at a distance of the other, were created.
C23_Witness ==
    /\ numa.ret = "Ok"
    /\ Cardinality(DOMAIN numa.numa_nodes) = 2
    /\ \A id \in DOMAIN numa.numa_nodes :
          DOMAIN numa.numa_nodes[id].distances = DOMAIN numa.numa_nodes \ {id}

----------------------------------------------------------------------------
(* The Snapshot of the Vm *)

\* C24: the Snapshot a successful snapshot() returns has the root id "vm",
\* one data section, "vm-section", that holds the serialized VmSnapshot, and
\* the snapshots of the CPU, memory and device managers as children; so
\* restore() of it never fails for a missing manager snapshot.
C24_SnapshotTree ==
    /\ snapshot.taken =>
          /\ snapshot.id = "vm"
          /\ Len(snapshot.snapshot_data) = 1
          /\ snapshot.snapshot_data[1].id = "vm-section"
          /\ snapshot.snapshots = {"cpu-manager", "memory-manager", "device-manager"}
          /\ pc = "new_from_snapshot" =>
                from_slice(snapshot.snapshot_data[1].snapshot) =
                    [clock |-> saved_clock, state |-> TRUE, common_cpuid |-> "cpuid"]
    /\ (op = "restore" /\ pc \in {"resume", "failed"}) =>
          /\ snapshot.taken
          /\ res.err # "Missing snapshot"

\* restore() of the Snapshot taken went through, the saved clock with it.
C24_Witness ==
    /\ snapshot.taken
    /\ op = "restore"
    /\ pc = "resume"
    /\ res.ok
    /\ InLog("cpu_manager.restore")
    /\ saved_clock = get_vm_snapshot(snapshot).clock

----------------------------------------------------------------------------
(* The memory resources of the HOB *)

\* C25: for each of the seven scenarios of test_hob_memory_resources,
\* hob_memory_resources returns the list expected there, in that order.
C25_DocumentedScenarios ==
    \A k \in DOMAIN DocumentedScenarios :
        (/\ hob.sections = DocumentedScenarios[k].sections
         /\ hob.guest_ranges = DocumentedScenarios[k].guest_ranges
         /\ hob.ret # "-")
            => /\ hob.ret = "returned"
               /\ hob.list = DocumentedScenarios[k].expected

\* The seventh scenario has returned its four resources.
C25_Witness ==
    /\ hob.sections = DocumentedScenarios[7].sections
    /\ hob.guest_ranges = DocumentedScenarios[7].guest_ranges
    /\ hob.ret = "returned"
    /\ Len(hob.list) = 4

\* The resources listed: start, size, is_ram of the i-th.
HobEnd(r) == r[1] + r[2]

\* The address a lies in the stretch [address, address + size).
Within(a, s) == s.address <= a /\ a < s.address + s.size

\* C26: for sorted disjoint sections and ordered disjoint RAM regions, a
\* section that covers more than one region included, hob_memory_resources
\* returns, without an arithmetic underflow, resources of positive size that
\* do not overlap: each section once as non-RAM, every RAM address that no
\* section covers in exactly one RAM resource, every RAM resource inside one
\* RAM region.
C26_HobPartition ==
    hob.ret # "-" =>
        /\ hob.ret = "returned"
        /\ \A i \in DOMAIN hob.list : hob.list[i][2] > 0
        /\ \A i, j \in DOMAIN hob.list :
              i < j => \/ HobEnd(hob.list[i]) <= hob.list[j][1]
                       \/ HobEnd(hob.list[j]) <= hob.list[i][1]
        /\ \A s \in DOMAIN hob.sections :
              Cardinality({i \in DOMAIN hob.list :
                              hob.list[i] = <<hob.sections[s].address,
                                              hob.sections[s].size, FALSE>>}) = 1
        /\ Cardinality({i \in DOMAIN hob.list : ~hob.list[i][3]}) = Len(hob.sections)
        /\ \A a \in 0..MaxAddress :
              (/\ \E g \in DOMAIN hob.guest_ranges : Within(a, hob.guest_ranges[g])
               /\ \A s \in DOMAIN hob.sections : ~Within(a, hob.sections[s]))
                  => Cardinality({i \in DOMAIN hob.list :
                                     /\ hob.list[i][3]
                                     /\ hob.list[i][1] <= a
                                     /\ a < HobEnd(hob.list[i])}) = 1
        /\ \A i \in DOMAIN hob.list :
              hob.list[i][3] =>
                  \E g \in DOMAIN hob.guest_ranges :
                      /\ hob.guest_ranges[g].address <= hob.list[i][1]
                      /\ HobEnd(hob.list[i]) <=
                             hob.guest_ranges[g].address + hob.guest_ranges[g].size

----------------------------------------------------------------------------
(* Lock order *)

\* The documented order of the locks below the state lock.
LockOrder == <<"config", "memory_manager", "device_manager", "cpu_manager">>

Position(l) == CHOOSE i \in DOMAIN LockOrder : LockOrder[i] = l

Ordered(l) == \E i \in DOMAIN LockOrder : LockOrder[i] = l

\* A thread holding these locks, taken in this order, took two of them in
\* the order opposite to the documented one.
OppositeOrder(held) ==
    \E i, j \in DOMAIN held :
        /\ i < j
        /\ Ordered(held[i]) /\ Ordered(held[j])
        /\ Position(held[j]) < Position(held[i])

\* The state lock is held together with another lock taken before it.
StateNotFirst(held) ==
    \E i \in DOMAIN held : held[i] = "state" /\ i > 1

\* Each of the two threads waits for a lock the other one holds.
Deadlocked ==
    /\ NextEvent[1] = "lock" /\ NextEvent[2] \in HeldBy(locks.loader_held)
    /\ LoaderEvent[1] = "lock" /\ LoaderEvent[2] \in HeldBy(locks.held)

\* C27: no operation takes two locks in an order opposite to configuration,
\* memory manager, device manager, CPU manager; the state lock, when held
\* together with another lock, was taken first; no two threads deadlock on
\* these locks.
C27_LockOrder ==
    /\ ~OppositeOrder(locks.held)
    /\ ~OppositeOrder(locks.loader_held)
    /\ ~StateNotFirst(locks.held)
    /\ ~Deadlocked

----------------------------------------------------------------------------
(* The order of restore *)

Has(l, e) == \E i \in DOMAIN l : l[i] = e

\* The place of the first e in the log l.
PosIn(l, e) == CHOOSE i \in DOMAIN l : l[i] = e /\ \A j \in 1..(i - 1) : l[j] # e

\* The log l holds every entry of seq, in the order of seq.
InOrder(l, seq) ==
    /\ \A i \in DOMAIN seq : Has(l, seq[i])
    /\ \A i, j \in DOMAIN seq : i < j => PosIn(l, seq[i]) < PosIn(l, seq[j])

\* What restore() does after its checks, on a terminal or not.
RestoreSequence(tty) ==
    <<"memory_manager.restore", "device_manager.restore", "cpu_manager.restore",
      "device_manager.restore_devices", "cpu_manager.start_restored_vcpus",
      "Signals::new">>
    \o (IF tty THEN <<"set_raw_mode">> ELSE <<>>)
    \o <<"commit">>

\* The place in RestoreSequence of the restore of the manager whose snapshot
\* is filed under id.
RestoreOf(id) ==
    CASE id = "memory-manager" -> 1
      [] id = "device-manager" -> 2
      [] id = "cpu-manager" -> 3

\* C28: a successful restore() restores the memory manager, the device
\* manager, the CPU manager and the devices, starts the restored vCPUs, sets
\* up the signal dispatcher and the TTY and commits Paused, in this order; a
\* restore() of a snapshot without the child of a manager returns a Restore
\* error at that step, having done the steps before it and none from it on,
\* and leaves the state as it was.
C28_RestoreOrder ==
    [][op' = "restore" =>
         /\ res'.ok =>
              /\ InOrder(log', RestoreSequence(on_tty))
              /\ log'[Len(log')] = "commit"
              /\ state' = "Paused"
         /\ (~res'.ok /\ res'.err = "Missing snapshot") =>
              LET seq == RestoreSequence(TRUE)
                  n == RestoreOf(res'.at) IN
              /\ res'.wrap = <<"MigratableError::Restore">>
              /\ InOrder(log', SubSeq(seq, 1, n - 1))
              /\ \A i \in n..Len(seq) : ~Has(log', seq[i])
              /\ state' = state
              /\ writes' = <<>>]_vars

\* restore() on a terminal went through, with the signal dispatcher running.
C28_Witness ==
    /\ op = "restore"
    /\ res.ok
    /\ InLog("set_raw_mode")
    /\ InLog("spawn signal_handler")
    /\ state = "Paused"

----------------------------------------------------------------------------
(* Transport: send *)

Sent(e) == \E i \in DOMAIN transport.log : transport.log[i] = e

\* C29: send creates the config file and then the state file, both with
\* create-new semantics, writes the serialized VmConfig and the serialized
\* snapshot tree into them, and only then asks the memory manager to send;
\* when either file is there already send fails, leaves the file as it was
\* and does not ask the memory manager.
C29_SendOrder ==
    /\ Sent("memory_manager.send") =>
         /\ transport.log = <<"create_new(config)", "write(config)",
                              "create_new(state)", "write(state)",
                              "memory_manager.send">>
         /\ transport.before = [f \in SnapshotFiles |-> "absent"]
         /\ transport.files = [f \in SnapshotFiles |-> Serialized(f)]
    /\ \A f \in SnapshotFiles :
         (transport.ret # "-" /\ transport.before[f] # "absent") =>
            /\ transport.ret = "Err(MigrateSend)"
            /\ transport.files[f] = transport.before[f]
            /\ ~Sent("memory_manager.send")

----------------------------------------------------------------------------
(* The signal dispatcher *)

Did(e, x) == \E i \in DOMAIN e.did : e.did[i] = x

\* The reaction to SIGWINCH: the console updates its size, nothing else.
WinchReaction(e) == e.did = <<"console.update_console_size">>

\* The reaction to SIGTERM or SIGINT the documentation describes: canonical
\* mode restored when on a terminal, then the exit event signalled, the
\* process ended when that fails.
TermReaction(e) ==
    e.did \in {(IF on_tty THEN <<"set_canon_mode: Ok">> ELSE <<>>) \o w :
                 w \in {<<"exit_evt.write(1): Ok">>,
                        <<"exit_evt.write(1): Err", "process::exit(1)">>}}

\* The reaction to SIGTERM or SIGINT on a terminal whose canonical mode
\* cannot be restored: the panic is caught, the exit event is written with
\* the result ignored, the process is not ended by the dispatcher.
TermPanicReaction(e) ==
    /\ on_tty
    /\ e.did \in {<<"set_canon_mode: Err", "panic", w>> :
                    w \in {"exit_evt.write(1): Ok", "exit_evt.write(1): Err"}}

LastServed == dispatcher.served[Len(dispatcher.served)]

\* C30, as the documentation states it: SIGWINCH only updates the console
\* size; SIGTERM or SIGINT restores canonical mode (on a terminal) and then
\* signals the exit event, ending the process when that fails; the
\* dispatcher serves signals until shutdown closes its handle.
C30_DispatcherAsDocumented ==
    /\ \A i \in DOMAIN dispatcher.served :
         LET e == dispatcher.served[i] IN
         /\ e.signal = "SIGWINCH" => WinchReaction(e)
         /\ e.signal \in {"SIGTERM", "SIGINT"} => TermReaction(e)
    /\ (dispatcher.served # <<>> /\ ~dispatcher.closed /\ ~Did(LastServed, "process::exit(1)"))
         => dispatcher.pc = "serving"

\* C30, amended: as documented while canonical mode can be restored; when it
\* cannot, the dispatcher signals the exit event and ends, and serves no
\* signal after that.
C30_Dispatcher ==
    /\ \A i \in DOMAIN dispatcher.served :
         LET e == dispatcher.served[i] IN
         /\ e.signal = "SIGWINCH" => WinchReaction(e)
         /\ e.signal \in {"SIGTERM", "SIGINT"} =>
              \/ TermReaction(e)
              \/ TermPanicReaction(e) /\ i = Len(dispatcher.served)
         /\ Did(e, "process::exit(1)") => i = Len(dispatcher.served)
    /\ (dispatcher.served # <<>> /\ ~dispatcher.closed)
         => \/ dispatcher.pc = "serving"
            \/ dispatcher.pc = "exited" /\ Did(LastServed, "process::exit(1)")
            \/ dispatcher.pc = "panicked" /\ TermPanicReaction(LastServed)
    /\ dispatcher.pc = "returned" => dispatcher.closed
    /\ dispatcher.exit_evt > 0 =>
         \/ \E i \in DOMAIN dispatcher.served :
              dispatcher.served[i].signal \in {"SIGTERM", "SIGINT"}
         \/ dispatcher.served = <<>> /\ dispatcher.pc \in {"filter failed", "panicked"}

\* On a terminal: a SIGWINCH served, then a SIGTERM whose canonical mode was
\* restored, then a SIGINT that could not restore it.
C30_Witness ==
    /\ on_tty
    /\ Len(dispatcher.served) = 3
    /\ dispatcher.served[1].signal = "SIGWINCH"
    /\ dispatcher.served[2].signal = "SIGTERM" /\ TermReaction(dispatcher.served[2])
    /\ dispatcher.served[3].signal = "SIGINT" /\ TermPanicReaction(dispatcher.served[3])
    /\ dispatcher.pc = "panicked"

----------------------------------------------------------------------------
(* Raw firmware *)

\* C31: a kernel file without the ELF magic is loaded as raw firmware: above
\* 4 MiB it fails with FirmwareTooLarge and nothing is allocated; a file of
\* s <= 4 MiB that is loaded gets one RAM region of s bytes ending at 4 GiB,
\* is copied there whole, and the entry point returned is absent; any other
\* error of the ELF loader is returned as KernelLoad.
C31_RawFirmware ==
    loading.ret # "-" =>
      /\ (loading.elf = "Err(Elf(InvalidElfMagicNumber))" /\ loading.size > FirmwareLimit) =>
           /\ loading.ret \in {"Err(FirmwareTooLarge)", "Err(FirmwareFile)"}
           /\ loading.regions = {}
           /\ loading.copied = {}
      /\ loading.ret = "Err(FirmwareTooLarge)" =>
           loading.elf = "Err(Elf(InvalidElfMagicNumber))" /\ loading.size > FirmwareLimit
      /\ (loading.elf = "Err(Elf(InvalidElfMagicNumber))" /\ loading.ret = "Ok(EntryPoint { entry_addr: None })") =>
           LET region == [start |-> FourGiB - loading.size, size |-> loading.size] IN
           /\ loading.size <= FirmwareLimit
           /\ loading.regions = {region}
           /\ loading.copied = {region}
           /\ region.start + region.size = FourGiB
      /\ loading.ret = "Ok(EntryPoint { entry_addr: None })" =>
           loading.elf = "Err(Elf(InvalidElfMagicNumber))"
      /\ loading.elf = "Err(other)" =>
           loading.ret = "Err(KernelLoad)" /\ loading.regions = {}

\* A firmware of 2 MiB was loaded at 4 GiB - 2 MiB.
C31_Witness ==
    /\ loading.elf = "Err(Elf(InvalidElfMagicNumber))"
    /\ loading.size = 2048
    /\ loading.ret = "Ok(EntryPoint { entry_addr: None })"
    /\ loading.regions = {[start |-> FourGiB - 2048, size |-> 2048]}

----------------------------------------------------------------------------
(* The poisoned state lock *)

\* C32: the state lock is poisoned, and boot, shutdown, pause and resume fail
\* with PoisonedState, only after a holder panicked; the failing operation
\* leaves the state as it was; the read-only queries made afterwards are
\* answered (get_state with PoisonedState).
C32_PoisonedState ==
    [][/\ poisoned' => queries'.mutexes # {}
       /\ (res'.err = "PoisonedState" /\ queries'.asked = "-") =>
            poisoned /\ state' = state
       /\ (res'.err = "PoisonedState" /\ queries'.asked # "-") =>
            queries'.answer # "panic"]_vars

----------------------------------------------------------------------------
(* The configuration and the managers *)

\* C33: no holder of the configuration handle observes, while add_device,
\* remove_device, resize or resize_zone runs, a configuration that disagrees
\* with the manager the operation has changed: the change of the manager and
\* that of the configuration are made in one critical section.
C33_SameCriticalSection ==
    mirror.observed # "disagrees"

----------------------------------------------------------------------------
(* One hotplug call *)

\* The sequence s without the entries equal to id, the others in their
\* order.
RECURSIVE Without(_, _)
Without(s, id) ==
    IF s = <<>>
    THEN <<>>
    ELSE IF s[1] = id
         THEN Without(Tail(s), id)
         ELSE <<s[1]>> \o Without(Tail(s), id)

\* The call was made during the hotplug call.
Plugging(call) ==
    \E i \in DOMAIN plug.log : plug.log[i].call = call

\* C34: a successful remove_device(id) leaves in each of the lists devices,
\* user_devices, disks, fs, net, pmem and vdpa the entries of another id, in
\* their order, and no entry of id, a list that was None staying None; it
\* clears vsock when vsock has the id and leaves it otherwise.  When the
\* device manager rejects the removal the configuration is unchanged and no
\* notification is sent.
C34_RemoveDevice ==
    plug.op = "remove" =>
        /\ plug.ret = "Ok" =>
             /\ \A l \in DeviceLists :
                  /\ plug.config[l].some = plug.prior[l].some
                  /\ plug.config[l].items = Without(plug.prior[l].items, plug.id)
             /\ plug.config["vsock"] =
                  IF plug.prior["vsock"].some /\ plug.prior["vsock"].items[1] = plug.id
                  THEN None
                  ELSE plug.prior["vsock"]
        /\ ~plug.log[1].ok =>
             /\ plug.config = plug.prior
             /\ ~Plugging("device_manager.notify_hotplug(PCI_DEVICES_CHANGED)")

\* remove_device has removed the second of three disks.
C34_Witness ==
    /\ plug.op = "remove"
    /\ plug.ret = "Ok"
    /\ Len(plug.prior["disks"].items) = 3
    /\ plug.prior["disks"].items[2] = plug.id
    /\ plug.config["disks"].items =
         <<plug.prior["disks"].items[1], plug.prior["disks"].items[3]>>

\* The configuration c has the device id at the place list.
Holds(c, list, id) ==
    \E i \in DOMAIN c[list].items : c[list].items[i] = id

\* C35: an add_* operation calls the device manager's add first; when that
\* fails the configuration is unchanged and no notification is sent; a
\* notification is sent after the configuration was updated, when the
\* configuration holds the device.
C35_AddOrder ==
    plug.op = "add" =>
        /\ plug.log[1].call = "device_manager.add"
        /\ ~plug.log[1].ok =>
             /\ plug.config = plug.prior
             /\ ~Plugging("device_manager.notify_hotplug(PCI_DEVICES_CHANGED)")
        /\ \A i \in DOMAIN plug.log :
             plug.log[i].call = "device_manager.notify_hotplug(PCI_DEVICES_CHANGED)" =>
                /\ i = 3
                /\ plug.log[2].call = "config.add"
                /\ Holds(plug.log[i].config, plug.list, plug.id)
                /\ Holds(plug.config, plug.list, plug.id)

\* add_vsock has added the vsock device to a configuration of two other
\* devices and has notified the guest.
C35_Witness ==
    /\ plug.op = "add"
    /\ plug.list = "vsock"
    /\ plug.ret = "Ok"
    /\ Cardinality(Plugged(plug.prior)) = 2
    /\ Len(plug.log) = 3
    /\ plug.log[3].ok

----------------------------------------------------------------------------
(* resize of the vCPUs alone *)

\* C36: resize(Some(n), None, None) notifies CPU_DEVICES_CHANGED if and only
\* if the CPU manager reports a change; boot_vcpus is n when the call has
\* succeeded, and is what it was when the CPU manager or the notification
\* has failed; the memory and balloon configuration are as they were.
C36_ResizeVcpus ==
    (/\ resizing.desired_vcpus.some
     /\ ~resizing.desired_memory.some
     /\ ~resizing.desired_balloon.some) =>
        /\ Resizing("device_manager.notify_hotplug(CPU_DEVICES_CHANGED)")
              <=> Resizing("cpu_manager.resize: Ok(true)")
        /\ resizing.ret = "Ok(())" =>
              resources.boot_vcpus = resizing.desired_vcpus.items[1]
        /\ resizing.ret # "Ok(())" =>
              /\ resizing.ret \in {"Err(CpuManager)", "Err(DeviceManager)"}
              /\ resources.boot_vcpus = resizing.before.boot_vcpus
        /\ resources = [resizing.before EXCEPT !.boot_vcpus = resources.boot_vcpus]

\* resize(Some(2), None, None) of a Vm of one vCPU has succeeded without a
\* change reported by the CPU manager, hence without a notification.
C36_Witness ==
    /\ resizing.desired_vcpus = Some(<<2>>)
    /\ ~resizing.desired_memory.some
    /\ ~resizing.desired_balloon.some
    /\ resizing.ret = "Ok(())"
    /\ resizing.before.boot_vcpus = 1
    /\ resources.boot_vcpus = 2
    /\ Resizing("cpu_manager.resize: Ok(false)")
    /\ ~Resizing("device_manager.notify_hotplug(CPU_DEVICES_CHANGED)")

----------------------------------------------------------------------------
(* boot of a trusted domain *)

\* The phases of the boot of a trusted domain, in the documented order.
DomainPhases ==
    <<"tdx_init", "cpu_manager.create_boot_vcpus", "extract_tdvf_sections",
      "populate_tdx_sections", "cpu_manager.initialize_tdx",
      "tdx_init_memory_region", "tdx_finalize", "cpu_manager.start_boot_vcpus">>

\* The place of the call among the phases, 0 for a call that is no phase.
PhaseOf(call) ==
    IF \E p \in DOMAIN DomainPhases : DomainPhases[p] = call
    THEN CHOOSE p \in DOMAIN DomainPhases : DomainPhases[p] = call
    ELSE 0

\* The entries of the log that register a section.
Registrations ==
    SelectSeq(domain.log, LAMBDA e : e.call = "tdx_init_memory_region")

\* C37: in the boot of a trusted domain the phases trusted-domain init,
\* vCPU creation, section extraction, population, hand-off of the HOB
\* address, registration of the sections, finalize and vCPU start are
\* called in this order, each after all the phases before it went through;
\* when finalize is called every section of the list was registered, in the
\* order of the list, with the extend-measurement flag set exactly for the
\* sections of attributes 1; no call follows one that failed.
C37_DomainBoot ==
    /\ \A i, j \in DOMAIN domain.log :
         (i < j /\ PhaseOf(domain.log[i].call) > 0 /\ PhaseOf(domain.log[j].call) > 0) =>
            \/ PhaseOf(domain.log[i].call) < PhaseOf(domain.log[j].call)
            \/ /\ domain.log[i].call = "tdx_init_memory_region"
               /\ domain.log[j].call = "tdx_init_memory_region"
    /\ \A j \in DOMAIN domain.log :
         \A p \in 1..(PhaseOf(domain.log[j].call) - 1) :
            (DomainPhases[p] # "tdx_init_memory_region") =>
               \E i \in 1..(j - 1) : domain.log[i].call = DomainPhases[p] /\ domain.log[i].ok
    /\ (\E j \in DOMAIN domain.log : domain.log[j].call = "tdx_finalize") =>
         /\ Len(Registrations) = Len(domain.sections)
         /\ \A n \in DOMAIN Registrations :
              /\ Registrations[n].ok
              /\ Registrations[n].section = n
              /\ Registrations[n].extend <=> (domain.sections[n].attributes = 1)
    /\ \A i \in DOMAIN domain.log :
         ~domain.log[i].ok => (i = Len(domain.log) /\ domain.ret \in {"Err", "panic"})

\* A trusted domain of two sections, of attributes 1 and 3, has booted and
\* its vCPUs were started.
C37_Witness ==
    /\ domain.ret = "Ok"
    /\ Len(domain.sections) = 2
    /\ domain.sections[1].attributes = 1
    /\ domain.sections[2].attributes = 3
    /\ domain.log[Len(domain.log)].call = "cpu_manager.start_boot_vcpus"

----------------------------------------------------------------------------
(* The transition is checked first *)

\* C38: when boot, shutdown, pause or resume returns the error of an illegal
\* transition, it has made no call and no assignment: no operation of a
\* sub-manager, no change of the terminal mode, the signal dispatcher
\* neither installed nor closed, the kernel-load handle not taken, and the
\* state, the threads and the managers are as they were.
C38_CheckedFirst ==
    [][(op' \in {"boot", "shutdown", "pause", "resume"}
        /\ res'.err = "InvalidStateTransition") =>
          /\ log' = <<>>
          /\ writes' = <<>>
          /\ state' = state
          /\ poisoned' = poisoned
          /\ signals' = signals
          /\ threads' = threads
          /\ load_kernel_handle' = load_kernel_handle
          /\ saved_clock' = saved_clock
          /\ vcpus_paused' = vcpus_paused
          /\ dm_paused' = dm_paused
          /\ res'.from = state]_vars

\* pause() of a paused Vm with a signal dispatcher and its thread has
\* returned the error of the transition Paused -> Paused.
C38_Witness ==
    /\ op = "pause"
    /\ res.err = "InvalidStateTransition"
    /\ res.from = "Paused"
    /\ state = "Paused"
    /\ signals
    /\ vcpus_paused
    /\ log = <<>>

----------------------------------------------------------------------------
(* The state and the sub-managers *)

\* The stored state agrees with the CPU manager and the device manager.
StateAgrees ==
    /\ state = "Running" => (~vcpus_paused /\ ~dm_paused)
    /\ state = "Paused" => (vcpus_paused /\ dm_paused)

\* C39: boot, shutdown, pause and resume, called when the stored state
\* agrees with the CPU manager and the device manager, leave them in
\* agreement, also when they return an error: when the state is Running
\* neither manager is paused, and when it is Paused both are.
C39_StateAgreesWithManagers ==
    [][(StateAgrees /\ op' \in {"boot", "shutdown", "pause", "resume"})
          => StateAgrees']_vars

----------------------------------------------------------------------------
(* The end of a transfer *)

\* C40: send_memory_regions and receive_memory_regions terminate: whatever
\* the primitive answers at each call, an error or a count from 0 to the
\* count asked for, a transfer that is in its loop returns in the end.
C40_TransferTerminates ==
    (xfer.pc = "loop") ~> (xfer.pc = "returned")

====
